---- MODULE Spec2Model ----
(***************************************************************************)
(* A model of the mindbridge backend: the circle matching service          *)
(* (backend/services/circle_matching.go) and the realtime socket server    *)
(* (backend/websocket/socket_server.go) over a shared persistence layer.   *)
(*                                                                         *)
(* Every persistence call of the code is one atomic step; the steps of     *)
(* concurrently running calls and handlers interleave.  A persistence call *)
(* may fail: its outcome is drawn from DbOutcomes.                         *)
(***************************************************************************)
EXTENDS Integers, Sequences, FiniteSets, TLC

(***************************************************************************)
(* Bounds of the model.                                                    *)
(***************************************************************************)
\* capacity of a circle (Circle.MaxMembers, a default of the schema)
MaxMembers == 2
\* number of MatchUserToCircle calls that are started
MaxCalls == 3
\* number of send_message events that are accepted for processing
MaxSends == 2
\* number of stored read receipts up to which mark_read events are accepted
MaxReads == 2
\* number of runs of resetDatabase
MaxResets == 1
\* number of user_typing broadcasts
MaxTypings == 2
\* number of ranges handed to maskContent
MaxSpans == 3

Users == {"u1", "u2", "u3"}
ModeratorLists == {<<>>, <<"m1", "m2">>}
Procs == {"p1", "p2"}
Conns == {"s1", "s2"}
NoUser == ""
NoCircle == 0
NoMessage == 0
DbOutcomes == {"ok", "error"}
\* no run of resetDatabase in progress
IdleReset == [pc |-> "idle", created |-> 0, runs |-> 0]

VARIABLES
    moderators,     \* User rows with role MODERATOR, in query order
    circles,        \* Circle rows in insertion order; a circle's id is its index
    memberships,    \* CircleMembership rows in insertion order
    messages,       \* Message rows in insertion order; a message's id is its index
    reads,          \* MessageRead rows in insertion order
    calls,          \* the MatchUserToCircle calls in progress, per caller
    ncalls,         \* MatchUserToCircle calls started so far
    connState,      \* per connection: "new", "open" or "closed"
    ctxUser,        \* per connection: the userID of its context map, or NoUser
    rooms,          \* per connection: the rooms it has joined
    emitted,        \* what the latest step emitted, and to which connection
    handler,        \* per connection: the event handler in progress
    returned,       \* what the authenticateConnection call that ended in the
                    \* latest step returned: "true", "false", or "none";
                    \* "panic" when the handler of the latest step panicked
    broadcasts,     \* the room broadcasts issued, in order
    nsends,         \* send_message events accepted so far
    reset,          \* the run of resetDatabase in progress, and the runs so far
    scan,           \* the evaluation of the safety service in progress
    onboarding      \* the SubmitOnboarding request in progress, the rows it
                    \* wrote and the emails it dispatched

dbVars == <<moderators, circles, memberships>>
matchVars == <<calls, ncalls>>
sockVars == <<messages, reads, connState, ctxUser, rooms, emitted, handler,
              returned, broadcasts, nsends>>
vars == <<moderators, circles, memberships, messages, reads, calls, ncalls,
          connState, ctxUser, rooms, emitted, handler, returned, broadcasts,
          nsends, reset, scan, onboarding>>
\* the state of the services that the handlers and the matcher do not touch
serviceVars == <<scan, onboarding>>

(***************************************************************************)
(* Strings are sequences of characters.                                    *)
(***************************************************************************)
UpperChars == <<"A","B","C","D","E","F","G","H","I","J","K","L","M",
                "N","O","P","Q","R","S","T","U","V","W","X","Y","Z">>
LowerChars == <<"a","b","c","d","e","f","g","h","i","j","k","l","m",
                "n","o","p","q","r","s","t","u","v","w","x","y","z">>

ToLowerChar(c) ==
    IF \E i \in 1..Len(UpperChars) : UpperChars[i] = c
    THEN LowerChars[CHOOSE i \in 1..Len(UpperChars) : UpperChars[i] = c]
    ELSE c

\* strings.ToLower
ToLower(s) == [i \in 1..Len(s) |-> ToLowerChar(s[i])]

\* strings.Contains
Contains(s, sub) ==
    \E i \in 0..(Len(s) - Len(sub)) : SubSeq(s, i + 1, i + Len(sub)) = sub

crisisKeywords ==
    << <<"s","e","l","f">>, <<"h","a","r","m">>,
       <<"s","u","i","c","i","d","e">>, <<"h","o","p","e","l","e","s","s">> >>
anxietyDepKeywords ==
    << <<"a","n","x","i","e","t","y">>, <<"a","n","x","i","o","u","s">>,
       <<"n","e","r","v","o","u","s">>, <<"l","o","w"," ","m","o","o","d">>,
       <<"d","e","p","r","e","s","s","e","d">>,
       <<"d","e","p","r","e","s","s","i","o","n">>, <<"s","l","e","e","p">> >>
academicKeywords ==
    << <<"e","x","a","m">>, <<"s","t","r","e","s","s">>,
       <<"m","o","t","i","v","a","t","i","o","n">>,
       <<"a","c","a","d","e","m","i","c">>, <<"s","t","u","d","y">> >>
socialKeywords ==
    << <<"r","e","l","a","t","i","o","n","s","h","i","p">>,
       <<"s","o","c","i","a","l">>,
       <<"a","d","j","u","s","t","m","e","n","t">>,
       <<"c","o","l","l","e","g","e">>, <<"f","r","i","e","n","d">> >>

\* the number of topics that contain at least one of the keywords
KeywordCount(topicsLower, keywords) ==
    Cardinality({i \in 1..Len(topicsLower) :
                    \E k \in 1..Len(keywords) :
                        Contains(topicsLower[i], keywords[k])})

\* DetermineCircleCategory that compares the topics as they were typed
DetermineCircleCategory_CaseSensitive(topics) ==
    IF KeywordCount(topics, crisisKeywords) > 0 THEN "CRISIS"
    ELSE IF KeywordCount(topics, anxietyDepKeywords) > 0
         THEN "ANXIETY_DEPRESSION"
    ELSE IF KeywordCount(topics, academicKeywords) > 0
         THEN "ACADEMIC_STRESS"
    ELSE IF KeywordCount(topics, socialKeywords) > 0
         THEN "SOCIAL_ADJUSTMENT"
    ELSE "GENERAL_SUPPORT"

DetermineCircleCategory(topics) ==
    LET topicsLower == [i \in 1..Len(topics) |-> ToLower(topics[i])]
    IN  IF KeywordCount(topicsLower, crisisKeywords) > 0 THEN "CRISIS"
        ELSE IF KeywordCount(topicsLower, anxietyDepKeywords) > 0
             THEN "ANXIETY_DEPRESSION"
        ELSE IF KeywordCount(topicsLower, academicKeywords) > 0
             THEN "ACADEMIC_STRESS"
        ELSE IF KeywordCount(topicsLower, socialKeywords) > 0
             THEN "SOCIAL_ADJUSTMENT"
        ELSE "GENERAL_SUPPORT"

\* IsCriticalRisk that asks for a score of 6 only
IsCriticalRisk_AnySix(phq2Total, gad2Total) ==
    phq2Total = 6 \/ gad2Total = 6

IsCriticalRisk(phq2Total, gad2Total) ==
    (phq2Total >= 5 /\ gad2Total >= 5) \/ phq2Total = 6 \/ gad2Total = 6

(***************************************************************************)
(* The safety service.  A text is a sequence of characters; the offsets    *)
(* that the patterns report count bytes, and a character outside ASCII     *)
(* takes more than one byte.                                               *)
(***************************************************************************)
\* characters of two bytes in UTF-8: e with acute accent, and the long s,
\* which a case-insensitive pattern takes for an s
EAcute == "<e-acute>"
LongS == "<long-s>"
TwoByteChars == {EAcute, LongS}
\* the masking character
MaskChar == "<block>"

ByteLen(ch) == IF ch \in TwoByteChars THEN 2 ELSE 1

\* the byte offset at which character k of the content starts
RECURSIVE OffsetOf(_, _)
OffsetOf(content, k) ==
    IF k <= 1 THEN 0
    ELSE OffsetOf(content, k - 1) + ByteLen(content[k - 1])

\* len(content), in bytes
ByteLength(content) == OffsetOf(content, Len(content) + 1)

Digits == {"0", "1", "2", "3", "4", "5", "6", "7", "8", "9"}
\* the characters on the word side of \b
WordChars ==
    {UpperChars[i] : i \in 1..Len(UpperChars)}
        \cup {LowerChars[i] : i \in 1..Len(LowerChars)} \cup Digits \cup {"_"}

\* a character of the content meets a letter of a (?i) pattern
FoldsTo(ch, letter) ==
    \/ ToLowerChar(ch) = letter
    \/ ch = LongS /\ letter = "s"

NoResult ==
    [Flagged |-> FALSE, MaskedContent |-> <<>>, Matches |-> <<>>,
     RequiresEscalation |-> FALSE]

\* no evaluation in progress
IdleScan ==
    [pc |-> "idle", content |-> <<>>, matches |-> <<>>, merged |-> <<>>,
     result |-> NoResult]

\* no SubmitOnboarding request in progress; responses and completed are the
\* users with an OnboardingResponse row and with OnboardingCompleted set,
\* emails the emails dispatched, status the latest HTTP status (0: none)
IdleOnboarding ==
    [pc |-> "idle", userID |-> NoUser, topics |-> <<>>, phq2Total |-> 0,
     gad2Total |-> 0, circle |-> NoCircle, status |-> 0,
     responses |-> {}, completed |-> {}, emails |-> <<>>]

(***************************************************************************)
(* Queries on the stored rows.                                             *)
(***************************************************************************)
\* the ids of the circles that exist: a deleted row leaves its id behind
CircleIDs == {i \in 1..Len(circles) : circles[i].status # "DELETED"}

\* what is left of a deleted Message row
DeletedMessage == [circleID |-> NoCircle, senderID |-> NoUser, content |-> <<>>]

\* the ids of the messages that exist
MessageIDs == {i \in 1..Len(messages) : messages[i] # DeletedMessage}

\* Circle.Memberships(): the membership rows of a circle
MembershipsOf(circleID) ==
    {i \in 1..Len(memberships) : memberships[i].circleID = circleID}

\* the membership rows of a user
MembershipsOfUser(userID) ==
    {i \in 1..Len(memberships) : memberships[i].userID = userID}

SetMin(S) == CHOOSE x \in S : \A y \in S : x <= y

\* the loop of FindOrCreateCircle over the active circles of the category
AvailableCircles(category) ==
    {i \in CircleIDs :
        /\ circles[i].category = category
        /\ circles[i].status = "ACTIVE"
        /\ Cardinality(MembershipsOf(i)) < circles[i].maxMembers}

\* the number of active circles a moderator has
ActiveCount(moderatorID) ==
    Cardinality({i \in CircleIDs : /\ circles[i].moderatorID = moderatorID
                                   /\ circles[i].status = "ACTIVE"})

\* a selection that counts every circle of a moderator, full ones included
SelectedModerator_CountsFull ==
    LET count(m) == Cardinality({i \in CircleIDs : circles[i].moderatorID = m})
        best == SetMin({i \in 1..Len(moderators) :
                          \A j \in 1..Len(moderators) :
                             count(moderators[i]) <= count(moderators[j])})
    IN  moderators[best]

\* the loop of assignModeratorRoundRobin: the first moderator with the fewest
\* active circles
SelectedModerator ==
    LET best == SetMin({i \in 1..Len(moderators) :
                          \A j \in 1..Len(moderators) :
                             ActiveCount(moderators[i]) <= ActiveCount(moderators[j])})
    IN  moderators[best]

CirclePrefix(category) ==
    CASE category = "CRISIS" -> "Crisis"
      [] category = "ANXIETY_DEPRESSION" -> "Mindful"
      [] category = "ACADEMIC_STRESS" -> "Study"
      [] category = "SOCIAL_ADJUSTMENT" -> "Connect"
      [] OTHER -> "General"

(***************************************************************************)
(* MatchUserToCircle, one step per persistence call.                       *)
(***************************************************************************)
T_ExamStress == <<"E","x","a","m"," ","s","t","r","e","s","s">>
T_LowMood == <<"L","o","w"," ","m","o","o","d">>
MatchTopicLists == { <<T_ExamStress>>, <<T_LowMood>> }
MatchScores == { <<4, 4>>, <<5, 5>>, <<6, 0>> }

\* the users whose onboarding submissions each caller carries: u1 submits on
\* both, so that two calls for one user run concurrently
CallerUsers(p) == IF p = "p1" THEN {"u1", "u2"} ELSE {"u1", "u3"}

\* topics is kept by the evaluations of the triage functions only
IdleCall ==
    [pc |-> "idle", userID |-> NoUser, phq2Total |-> 0, gad2Total |-> 0,
     topics |-> <<>>,
     category |-> "", circleID |-> NoCircle, moderatorID |-> NoUser,
     circleNumber |-> 0,
     ret |-> [circle |-> NoCircle, isCritical |-> FALSE, err |-> ""]]

\* the call returns (circle, isCritical, err)
Returns(p, circle, isCritical, err) ==
    calls' = [calls EXCEPT ![p].pc = "done",
                           ![p].ret = [circle |-> circle,
                                       isCritical |-> isCritical,
                                       err |-> err]]

Goto(p, pc) == calls' = [calls EXCEPT ![p].pc = pc]

\* MatchUserToCircle without the critical-risk return
MatchUserToCircle_NoTriage(p, userID, topics, phq2Total, gad2Total) ==
    /\ calls[p].pc = "idle"
    /\ ncalls < MaxCalls
    /\ ncalls' = ncalls + 1
    /\ calls' = [calls EXCEPT ![p] =
                [IdleCall EXCEPT !.pc = "find", !.userID = userID,
                                 !.phq2Total = phq2Total,
                                 !.gad2Total = gad2Total,
                                 !.category = DetermineCircleCategory(topics)]]
    /\ UNCHANGED <<dbVars, sockVars, reset, serviceVars>>

\* MatchUserToCircle up to its first persistence call
MatchUserToCircle(p, userID, topics, phq2Total, gad2Total) ==
    /\ calls[p].pc = "idle"
    /\ ncalls < MaxCalls
    /\ ncalls' = ncalls + 1
    /\ IF IsCriticalRisk(phq2Total, gad2Total)
       THEN calls' = [calls EXCEPT ![p] =
                [IdleCall EXCEPT !.pc = "done", !.userID = userID,
                                 !.phq2Total = phq2Total,
                                 !.gad2Total = gad2Total,
                                 !.ret = [circle |-> NoCircle,
                                          isCritical |-> TRUE,
                                          err |-> ""]]]
       ELSE calls' = [calls EXCEPT ![p] =
                [IdleCall EXCEPT !.pc = "find", !.userID = userID,
                                 !.phq2Total = phq2Total,
                                 !.gad2Total = gad2Total,
                                 !.category = DetermineCircleCategory(topics)]]
    /\ UNCHANGED <<dbVars, sockVars, reset, serviceVars>>

\* FindOrCreateCircle: Circle.FindMany and the search for a circle with space
FindOrCreateCircle(p) ==
    /\ calls[p].pc = "find"
    /\ \E db \in DbOutcomes :
        IF db = "error"
        THEN Returns(p, NoCircle, FALSE, "failed to query circles")
        ELSE IF AvailableCircles(calls[p].category) # {}
             THEN calls' = [calls EXCEPT
                      ![p].pc = "lookup",
                      ![p].circleID = SetMin(AvailableCircles(calls[p].category))]
             ELSE Goto(p, "moderator")
    /\ UNCHANGED <<dbVars, ncalls, sockVars, reset, serviceVars>>

\* assignModeratorRoundRobin: User.FindMany and the selection
assignModeratorRoundRobin(p) ==
    /\ calls[p].pc = "moderator"
    /\ \E db \in DbOutcomes :
        IF db = "error"
        THEN Returns(p, NoCircle, FALSE, "failed to assign moderator")
        ELSE IF Len(moderators) = 0
             THEN Returns(p, NoCircle, FALSE, "failed to assign moderator")
             ELSE calls' = [calls EXCEPT ![p].pc = "name",
                                         ![p].moderatorID = SelectedModerator]
    /\ UNCHANGED <<dbVars, ncalls, sockVars, reset, serviceVars>>

\* generateCircleName: Circle.FindMany of the category; 1 when the query fails
generateCircleName(p) ==
    /\ calls[p].pc = "name"
    /\ \E db \in DbOutcomes :
        calls' = [calls EXCEPT
            ![p].pc = "create",
            ![p].circleNumber =
                IF db = "ok"
                THEN Cardinality({i \in CircleIDs :
                        circles[i].category = calls[p].category}) + 1
                ELSE 1]
    /\ UNCHANGED <<dbVars, ncalls, sockVars, reset, serviceVars>>

\* FindOrCreateCircle: Circle.CreateOne
CreateCircle(p) ==
    /\ calls[p].pc = "create"
    /\ \E db \in DbOutcomes :
        IF db = "error"
        THEN /\ Returns(p, NoCircle, FALSE, "failed to create circle")
             /\ UNCHANGED circles
        ELSE /\ circles' = Append(circles,
                    [category |-> calls[p].category,
                     status |-> "ACTIVE",
                     moderatorID |-> calls[p].moderatorID,
                     name |-> <<CirclePrefix(calls[p].category),
                                calls[p].circleNumber>>,
                     maxMembers |-> MaxMembers])
             /\ calls' = [calls EXCEPT ![p].pc = "lookup",
                                       ![p].circleID = Len(circles) + 1]
    /\ UNCHANGED <<moderators, memberships, ncalls, sockVars, reset,
                   serviceVars>>

\* AddUserToCircle: CircleMembership.FindFirst of the user; its error is dropped
AddUserToCircle(p) ==
    /\ calls[p].pc = "lookup"
    /\ \E db \in DbOutcomes :
        LET existingMembership ==
                db = "ok" /\ MembershipsOfUser(calls[p].userID) # {}
        IN  IF existingMembership
            THEN Returns(p, NoCircle, FALSE, "user already in a circle")
            ELSE Goto(p, "insert")
    /\ UNCHANGED <<dbVars, ncalls, sockVars, reset, serviceVars>>

\* AddUserToCircle: CircleMembership.CreateOne
CreateMembership(p) ==
    /\ calls[p].pc = "insert"
    /\ \E db \in DbOutcomes :
        IF db = "error"
        THEN /\ Returns(p, NoCircle, FALSE, "failed to add user to circle")
             /\ UNCHANGED memberships
        ELSE /\ memberships' = Append(memberships,
                    [circleID |-> calls[p].circleID,
                     userID |-> calls[p].userID])
             /\ Goto(p, "reread")
    /\ UNCHANGED <<moderators, circles, ncalls, sockVars, reset, serviceVars>>

\* AddUserToCircle that flips the status only beyond the capacity
RereadCircle_BeyondCapacity(p) ==
    /\ calls[p].pc = "reread"
    /\ \E db \in DbOutcomes :
        IF db = "error"
        THEN Returns(p, NoCircle, FALSE, "failed to load circle")
        ELSE IF Cardinality(MembershipsOf(calls[p].circleID))
                    > circles[calls[p].circleID].maxMembers
             THEN Goto(p, "update")
             ELSE Returns(p, calls[p].circleID, FALSE, "")
    /\ UNCHANGED <<dbVars, ncalls, sockVars, reset, serviceVars>>

\* AddUserToCircle: Circle.FindUnique with its memberships
RereadCircle(p) ==
    /\ calls[p].pc = "reread"
    /\ \E db \in DbOutcomes :
        IF db = "error"
        THEN Returns(p, NoCircle, FALSE, "failed to load circle")
        ELSE IF Cardinality(MembershipsOf(calls[p].circleID))
                    >= circles[calls[p].circleID].maxMembers
             THEN Goto(p, "update")
             ELSE Returns(p, calls[p].circleID, FALSE, "")
    /\ UNCHANGED <<dbVars, ncalls, sockVars, reset, serviceVars>>

\* AddUserToCircle: Circle.Update of the status
UpdateStatus(p) ==
    /\ calls[p].pc = "update"
    /\ \E db \in DbOutcomes :
        IF db = "error"
        THEN /\ Returns(p, NoCircle, FALSE, "failed to update circle")
             /\ UNCHANGED circles
        ELSE /\ circles' = [circles EXCEPT ![calls[p].circleID].status = "FULL"]
             /\ Returns(p, calls[p].circleID, FALSE, "")
    /\ UNCHANGED <<moderators, memberships, ncalls, sockVars, reset,
                   serviceVars>>

\* the caller takes the result of the call
MatchReturn(p) ==
    /\ calls[p].pc = "done"
    /\ calls' = [calls EXCEPT ![p] = IdleCall]
    /\ UNCHANGED <<dbVars, ncalls, sockVars, reset, serviceVars>>


(***************************************************************************)
(* The socket server.  The events of one connection are handled one after  *)
(* the other; the handlers of different connections run concurrently and   *)
(* interleave at their persistence calls.                                  *)
(***************************************************************************)
SockUsers == {"u1", "u2", "m1"}

\* A token carries the user id of its claims; valid is whether the signature
\* and expiry check of jwt.ParseWithClaims passes.
Token(userID, valid) == [userID |-> userID, valid |-> valid]

\* the tokens the client of each connection presents
ClientTokens(c) ==
    IF c = "s1"
    THEN {Token("u1", TRUE), Token("u1", FALSE)}
    ELSE {Token("m1", TRUE), Token("u2", TRUE)}

\* utils.ValidateJWT: the claims of the token, or an error
ValidateJWT(token) ==
    IF token.valid THEN [err |-> FALSE, UserID |-> token.userID]
    ELSE [err |-> TRUE, UserID |-> NoUser]

WhiteSpace == {" ", "\t", "\n"}

\* strings.TrimSpace
TrimSpace(s) ==
    LET keep == {i \in 1..Len(s) : s[i] \notin WhiteSpace}
    IN  IF keep = {} THEN <<>>
        ELSE SubSeq(s, SetMin(keep),
                    CHOOSE i \in keep : \A j \in keep : j <= i)

\* s.Emit(event, data) on connection c
Emit(c, event, data) == [to |-> c, event |-> event, data |-> data]

\* the circle ids that send_message payloads carry: none, and circles 1 and 2
PayloadCircleIDs == {NoCircle, 1, 2}
Blank == <<" ">>
PaddedHi == <<" ", "h", "i", " ">>
Payload(circleID, content) ==
    [valid |-> TRUE, CircleID |-> circleID, Content |-> content]
\* the argument of a send_message event as json.Unmarshal reads it: not valid
\* (rejected), or a MessagePayload
NoData == [valid |-> FALSE, CircleID |-> NoCircle, Content |-> <<>>]
SendData ==
    {NoData, Payload(NoCircle, PaddedHi), Payload(1, Blank),
     Payload(1, PaddedHi), Payload(2, PaddedHi)}
\* a send_message event: its argument and the outcomes of the two
\* persistence calls of its access check
SendInputs ==
    {<<data, "ok", "ok">> : data \in SendData}
        \cup {<<Payload(k, PaddedHi), "error", "ok">> : k \in {1, 2}}
        \cup {<<Payload(k, PaddedHi), "ok", "error">> : k \in {1, 2}}

IdleHandler ==
    [pc |-> "idle", data |-> NoData, userID |-> NoUser, circleID |-> NoCircle,
     content |-> <<>>, messageID |-> NoMessage, readBy |-> <<>>]

\* getUserIDFromConn: (userID, ok)
getUserIDFromConn(c) ==
    [userID |-> ctxUser[c], ok |-> ctxUser[c] # NoUser]

\* userHasCircleAccess that lets every user in
userHasCircleAccess_AllowAll(circleID, userID, dbMembership, dbCircle) ==
    [allowed |-> TRUE, err |-> FALSE]

\* userHasCircleAccess that lets every user into a circle that exists
userHasCircleAccess_CircleExists(circleID, userID, dbMembership, dbCircle) ==
    IF dbMembership = "error" \/ dbCircle = "error"
    THEN [allowed |-> FALSE, err |-> TRUE]
    ELSE [allowed |-> circleID \in CircleIDs, err |-> FALSE]

\* userHasCircleAccess without the moderator check
userHasCircleAccess_MembersOnly(circleID, userID, dbMembership, dbCircle) ==
    LET membership ==
            {i \in MembershipsOfUser(userID) :
                memberships[i].circleID = circleID}
    IN  IF dbMembership = "ok" /\ membership # {}
        THEN [allowed |-> TRUE, err |-> FALSE]
        ELSE IF dbMembership = "error" \/ dbCircle = "error"
        THEN [allowed |-> FALSE, err |-> TRUE]
        ELSE [allowed |-> FALSE, err |-> FALSE]

\* userHasCircleAccess: (allowed, err); dbMembership and dbCircle are the
\* outcomes of its two persistence calls
userHasCircleAccess(circleID, userID, dbMembership, dbCircle) ==
    LET membership ==
            {i \in MembershipsOfUser(userID) :
                memberships[i].circleID = circleID}
    IN  IF dbMembership = "ok" /\ membership # {}
        THEN [allowed |-> TRUE, err |-> FALSE]
        ELSE IF dbMembership = "error"
        THEN [allowed |-> FALSE, err |-> TRUE]
        ELSE IF dbCircle = "error"
        THEN [allowed |-> FALSE, err |-> TRUE]
        ELSE IF circleID \notin CircleIDs
        THEN [allowed |-> FALSE, err |-> FALSE]
        ELSE [allowed |-> circles[circleID].moderatorID = userID,
              err |-> FALSE]

\* what auth_success carries for a circle
CircleDetails(userID, circleID, memberCount) ==
    [userId |-> userID, circleId |-> circleID,
     circleName |-> circles[circleID].name, memberCount |-> memberCount]

\* authenticateConnection returns: it emits to c, closes c when it failed,
\* and the handler of the event ends
AuthReturns(c, ok, event, data) ==
    /\ emitted' = <<Emit(c, event, data)>>
    /\ returned' = IF ok THEN "true" ELSE "false"
    /\ connState' = [connState EXCEPT ![c] = IF ok THEN @ ELSE "closed"]
    /\ handler' = [handler EXCEPT ![c] = IdleHandler]

\* authenticateConnection up to its first persistence call: ValidateJWT and
\* s.SetContext
authenticateConnection(c, token) ==
    LET claims == ValidateJWT(token)
    IN  /\ IF claims.err
           THEN /\ emitted' = <<Emit(c, "auth_error", "Invalid token")>>
                /\ returned' = "false"
                /\ connState' = [connState EXCEPT ![c] = "closed"]
                /\ UNCHANGED <<ctxUser, handler>>
           ELSE /\ ctxUser' = [ctxUser EXCEPT ![c] = claims.UserID]
                /\ handler' = [handler EXCEPT ![c] =
                      [IdleHandler EXCEPT !.pc = "authMembership",
                                          !.userID = claims.UserID]]
                /\ connState' = [connState EXCEPT ![c] = "open"]
                /\ emitted' = <<>>
                /\ returned' = "none"
        /\ UNCHANGED <<reset, dbVars, matchVars, messages, reads, rooms, broadcasts,
                       nsends, serviceVars>>

\* OnConnect without a token in the query
OnConnect(c) ==
    /\ connState[c] = "new"
    /\ connState' = [connState EXCEPT ![c] = "open"]
    /\ emitted' = <<>>
    /\ returned' = "none"
    /\ UNCHANGED <<reset, dbVars, matchVars, messages, reads, ctxUser, rooms,
                   handler, broadcasts, nsends, serviceVars>>

\* OnConnect with a token in the query
OnConnectToken(c, token) ==
    /\ connState[c] = "new"
    /\ authenticateConnection(c, token)

\* the authenticate event
Authenticate(c, token) ==
    /\ connState[c] = "open"
    /\ handler[c].pc = "idle"
    /\ authenticateConnection(c, token)

\* AuthFindMembership that leaves the connection open on an error
AuthFindMembership_NoClose(c, db) ==
    /\ handler[c].pc = "authMembership"
    /\ LET userID == handler[c].userID
           mine == MembershipsOfUser(userID)
       IN  IF db = "error"
           THEN /\ emitted' = <<Emit(c, "auth_error", "Server error")>>
                /\ returned' = "false"
                /\ handler' = [handler EXCEPT ![c] = IdleHandler]
                /\ UNCHANGED <<rooms, connState>>
           ELSE IF mine # {}
           THEN LET circleID == memberships[SetMin(mine)].circleID
                IN  /\ rooms' = [rooms EXCEPT ![c] = @ \cup {circleID}]
                    /\ handler' = [handler EXCEPT ![c].pc = "authCount",
                                                  ![c].circleID = circleID]
                    /\ emitted' = <<>>
                    /\ returned' = "none"
                    /\ UNCHANGED connState
           ELSE /\ handler' = [handler EXCEPT ![c].pc = "authModerator"]
                /\ emitted' = <<>>
                /\ returned' = "none"
                /\ UNCHANGED <<rooms, connState>>
    /\ UNCHANGED <<reset, dbVars, matchVars, messages, reads, ctxUser, broadcasts,
                   nsends, serviceVars>>

\* authenticateConnection: CircleMembership.FindFirst of the user, and s.Join
\* of the circle of the membership found
AuthFindMembership(c, db) ==
    /\ handler[c].pc = "authMembership"
    /\ LET userID == handler[c].userID
           mine == MembershipsOfUser(userID)
       IN  IF db = "error"
           THEN /\ AuthReturns(c, FALSE, "auth_error", "Server error")
                /\ UNCHANGED rooms
           ELSE IF mine # {}
           THEN LET circleID == memberships[SetMin(mine)].circleID
                IN  /\ rooms' = [rooms EXCEPT ![c] = @ \cup {circleID}]
                    /\ handler' = [handler EXCEPT ![c].pc = "authCount",
                                                  ![c].circleID = circleID]
                    /\ emitted' = <<>>
                    /\ returned' = "none"
                    /\ UNCHANGED connState
           ELSE /\ handler' = [handler EXCEPT ![c].pc = "authModerator"]
                /\ emitted' = <<>>
                /\ returned' = "none"
                /\ UNCHANGED <<rooms, connState>>
    /\ UNCHANGED <<reset, dbVars, matchVars, messages, reads, ctxUser, broadcasts,
                   nsends, serviceVars>>

\* authenticateConnection: CircleMembership.FindMany of the circle, whose
\* error is dropped, and the auth_success of a member
AuthCountMembers(c, db) ==
    /\ handler[c].pc = "authCount"
    /\ LET circleID == handler[c].circleID
           memberCount == IF db = "ok"
                          THEN Cardinality(MembershipsOf(circleID))
                          ELSE 0
       IN  AuthReturns(c, TRUE, "auth_success",
                       CircleDetails(handler[c].userID, circleID, memberCount))
    /\ UNCHANGED <<reset, dbVars, matchVars, messages, reads, ctxUser, rooms,
                   broadcasts, nsends, serviceVars>>

\* authenticateConnection: Circle.FindFirst of the circle the user moderates,
\* with its memberships, s.Join and the auth_success of a moderator or of a
\* user without a circle
AuthFindModerator(c, db) ==
    /\ handler[c].pc = "authModerator"
    /\ LET userID == handler[c].userID
           moderated == {i \in CircleIDs : circles[i].moderatorID = userID}
       IN  IF db = "error"
           THEN /\ AuthReturns(c, FALSE, "auth_error", "Server error")
                /\ UNCHANGED rooms
           ELSE IF moderated = {}
           THEN /\ AuthReturns(c, TRUE, "auth_success",
                        [userId |-> userID, circleId |-> NoCircle])
                /\ UNCHANGED rooms
           ELSE LET circleID == SetMin(moderated)
                IN  /\ rooms' = [rooms EXCEPT ![c] = @ \cup {circleID}]
                    /\ AuthReturns(c, TRUE, "auth_success",
                          CircleDetails(userID, circleID,
                                Cardinality(MembershipsOf(circleID))))
    /\ UNCHANGED <<reset, dbVars, matchVars, messages, reads, ctxUser, broadcasts,
                   nsends, serviceVars>>

\* a handler that returns without telling the sender
Reject_Silent(c, event, data) ==
    /\ emitted' = <<>>
    /\ returned' = "none"
    /\ UNCHANGED <<rooms, handler, nsends, serviceVars>>

\* the handler of the event returns after emitting ev to the sender
Reject(c, event, data) ==
    /\ emitted' = <<Emit(c, event, data)>>
    /\ returned' = "none"
    /\ UNCHANGED <<rooms, handler, nsends, serviceVars>>

\* the send_message event, up to Message.CreateOne
SendMessage(c, data, dbMembership, dbCircle) ==
    /\ connState[c] = "open"
    /\ handler[c].pc = "idle"
    /\ LET conn == getUserIDFromConn(c)
           content == TrimSpace(data.Content)
           access == userHasCircleAccess(data.CircleID, conn.userID,
                                         dbMembership, dbCircle)
       IN  IF ~conn.ok
           THEN Reject(c, "message_error", "Not authenticated")
           ELSE IF ~data.valid
           THEN Reject(c, "message_error", "Invalid message format")
           ELSE IF data.CircleID = NoCircle \/ content = <<>>
           THEN Reject(c, "message_error",
                       "Circle and message content are required")
           ELSE IF access.err
           THEN Reject(c, "message_error", "Server error")
           ELSE IF ~access.allowed
           THEN Reject(c, "message_error",
                       "Not authorized to send to this circle")
           ELSE /\ nsends < MaxSends
                /\ nsends' = nsends + 1
                /\ emitted' = <<>>
                /\ returned' = "none"
                \* ensureRoomMembership
                /\ rooms' = [rooms EXCEPT ![c] = @ \cup {data.CircleID}]
                /\ handler' = [handler EXCEPT ![c] =
                        [pc |-> "create", data |-> data,
                         userID |-> conn.userID,
                         circleID |-> data.CircleID, content |-> content,
                         messageID |-> NoMessage, readBy |-> <<>>]]
    /\ UNCHANGED <<reset, dbVars, matchVars, messages, reads, connState, ctxUser,
                   broadcasts, serviceVars>>

\* CreateMessage that broadcasts although Message.CreateOne failed
CreateMessage_BroadcastOnFailure(c, db) ==
    /\ handler[c].pc = "create"
    /\ IF db = "error" \/ handler[c].circleID \notin CircleIDs
       THEN /\ broadcasts' = Append(broadcasts,
                    [room |-> handler[c].circleID, event |-> "new_message",
                     data |-> [id |-> Len(messages) + 1,
                               circleId |-> handler[c].circleID,
                               senderId |-> handler[c].userID,
                               content |-> handler[c].content,
                               readBy |-> <<handler[c].userID>>]])
            /\ emitted' = <<>>
            /\ handler' = [handler EXCEPT ![c] = IdleHandler]
            /\ UNCHANGED messages
       ELSE /\ messages' = Append(messages,
                    [circleID |-> handler[c].circleID,
                     senderID |-> handler[c].userID,
                     content |-> handler[c].content])
            /\ handler' = [handler EXCEPT ![c].pc = "receipt",
                                          ![c].messageID = Len(messages) + 1]
            /\ emitted' = <<>>
            /\ UNCHANGED broadcasts
    /\ returned' = "none"
    /\ UNCHANGED <<reset, dbVars, matchVars, reads, connState, ctxUser, rooms,
                   nsends, serviceVars>>

\* send_message: Message.CreateOne; linking a circle that is not stored fails
CreateMessage(c, db) ==
    /\ handler[c].pc = "create"
    /\ IF db = "error" \/ handler[c].circleID \notin CircleIDs
       THEN /\ emitted' = <<Emit(c, "message_error",
                                  "Failed to send message")>>
            /\ handler' = [handler EXCEPT ![c] = IdleHandler]
            /\ UNCHANGED messages
       ELSE /\ messages' = Append(messages,
                    [circleID |-> handler[c].circleID,
                     senderID |-> handler[c].userID,
                     content |-> handler[c].content])
            /\ handler' = [handler EXCEPT ![c].pc = "receipt",
                                          ![c].messageID = Len(messages) + 1]
            /\ emitted' = <<>>
    /\ returned' = "none"
    /\ UNCHANGED <<reset, dbVars, matchVars, reads, connState, ctxUser, rooms,
                   broadcasts, nsends, serviceVars>>

\* CreateSenderReceipt whose failure ends the handler with an error event
CreateSenderReceipt_FatalOnFailure(c, db) ==
    /\ handler[c].pc = "receipt"
    /\ IF db = "ok" /\ handler[c].messageID \in MessageIDs
       THEN /\ reads' = Append(reads, [messageID |-> handler[c].messageID,
                                       userID |-> handler[c].userID])
            /\ handler' = [handler EXCEPT ![c].pc = "broadcast"]
            /\ emitted' = <<>>
       ELSE /\ handler' = [handler EXCEPT ![c] = IdleHandler]
            /\ emitted' = <<Emit(c, "message_error", "Failed to send message")>>
            /\ UNCHANGED reads
    /\ returned' = "none"
    /\ UNCHANGED <<reset, dbVars, matchVars, messages, connState, ctxUser, rooms,
                   broadcasts, nsends, serviceVars>>

\* CreateSenderReceipt that stores no receipt
CreateSenderReceipt_NoInsert(c, db) ==
    /\ handler[c].pc = "receipt"
    /\ handler' = [handler EXCEPT ![c].pc = "broadcast"]
    /\ emitted' = <<>>
    /\ returned' = "none"
    /\ UNCHANGED <<reset, dbVars, matchVars, messages, reads, connState, ctxUser,
                   rooms, broadcasts, nsends, serviceVars>>

\* send_message: MessageRead.CreateOne for the sender; a failure is logged only
CreateSenderReceipt(c, db) ==
    /\ handler[c].pc = "receipt"
    /\ reads' = IF db = "ok" /\ handler[c].messageID \in MessageIDs
                THEN Append(reads, [messageID |-> handler[c].messageID,
                                    userID |-> handler[c].userID])
                ELSE reads
    /\ handler' = [handler EXCEPT ![c].pc = "broadcast"]
    /\ emitted' = <<>>
    /\ returned' = "none"
    /\ UNCHANGED <<reset, dbVars, matchVars, messages, connState, ctxUser, rooms,
                   broadcasts, nsends, serviceVars>>

\* send_message: BroadcastToRoom of new_message
BroadcastNewMessage(c) ==
    /\ handler[c].pc = "broadcast"
    \* message is the row that Message.CreateOne returned
    /\ LET message == [circleID |-> handler[c].circleID,
                       senderID |-> handler[c].userID,
                       content |-> handler[c].content]
       IN  broadcasts' = Append(broadcasts,
                [room |-> handler[c].circleID, event |-> "new_message",
                 data |-> [id |-> handler[c].messageID,
                           circleId |-> message.circleID,
                           senderId |-> message.senderID,
                           content |-> message.content,
                           readBy |-> <<handler[c].userID>>]])
    /\ handler' = [handler EXCEPT ![c] = IdleHandler]
    /\ emitted' = <<>>
    /\ returned' = "none"
    /\ UNCHANGED <<reset, dbVars, matchVars, messages, reads, connState, ctxUser,
                   rooms, nsends, serviceVars>>

\* the argument of a mark_read event as json.Unmarshal reads it: not valid,
\* or a ReadReceiptPayload
ReadPayload(circleID, messageID) ==
    [valid |-> TRUE, CircleID |-> circleID, MessageID |-> messageID]
NoReadData == [valid |-> FALSE, CircleID |-> NoCircle, MessageID |-> NoMessage]
\* the message ids that mark_read payloads carry
PayloadMessageIDs == 1..MaxSends
MarkData ==
    {NoReadData, ReadPayload(NoCircle, 1), ReadPayload(1, NoMessage),
     ReadPayload(2, 1)}
        \cup {ReadPayload(1, m) : m \in PayloadMessageIDs}
\* a mark_read event: its argument and the outcomes of the two persistence
\* calls of its access check
MarkInputs ==
    {<<data, "ok", "ok">> : data \in MarkData}
        \cup {<<ReadPayload(1, 1), "error", "ok">>}

\* the stored receipts of a message, and those of a (message, user) pair
ReceiptsOf(messageID) ==
    {i \in 1..Len(reads) : reads[i].messageID = messageID}
ReceiptsOfPair(messageID, userID) ==
    {i \in ReceiptsOf(messageID) : reads[i].userID = userID}

\* a mark_read handler that reports every event it drops to the sender
MarkRead_Reports(c, data, dbMembership, dbCircle) ==
    /\ connState[c] = "open"
    /\ handler[c].pc = "idle"
    /\ LET conn == getUserIDFromConn(c)
           access == userHasCircleAccess(data.CircleID, conn.userID,
                                         dbMembership, dbCircle)
       IN  IF \/ ~conn.ok
              \/ ~data.valid
              \/ data.CircleID = NoCircle \/ data.MessageID = NoMessage
              \/ access.err
              \/ ~access.allowed
           THEN /\ UNCHANGED handler
                /\ emitted' = <<Emit(c, "message_error", "Not authorized")>>
           ELSE /\ Len(reads) < MaxReads
                /\ handler' = [handler EXCEPT ![c] =
                        [IdleHandler EXCEPT !.pc = "markFind",
                                            !.userID = conn.userID,
                                            !.circleID = data.CircleID,
                                            !.messageID = data.MessageID]]
                /\ emitted' = <<>>
    /\ returned' = "none"
    /\ UNCHANGED <<reset, dbVars, matchVars, messages, reads, connState, ctxUser,
                   rooms, broadcasts, nsends, serviceVars>>

\* the mark_read event, up to MessageRead.FindFirst; it returns silently on
\* every failed test
MarkRead(c, data, dbMembership, dbCircle) ==
    /\ connState[c] = "open"
    /\ handler[c].pc = "idle"
    /\ LET conn == getUserIDFromConn(c)
           access == userHasCircleAccess(data.CircleID, conn.userID,
                                         dbMembership, dbCircle)
       IN  IF \/ ~conn.ok
              \/ ~data.valid
              \/ data.CircleID = NoCircle \/ data.MessageID = NoMessage
              \/ access.err
              \/ ~access.allowed
           THEN UNCHANGED handler
           ELSE /\ Len(reads) < MaxReads
                /\ handler' = [handler EXCEPT ![c] =
                        [IdleHandler EXCEPT !.pc = "markFind",
                                            !.userID = conn.userID,
                                            !.circleID = data.CircleID,
                                            !.messageID = data.MessageID]]
    /\ emitted' = <<>>
    /\ returned' = "none"
    /\ UNCHANGED <<reset, dbVars, matchVars, messages, reads, connState, ctxUser,
                   rooms, broadcasts, nsends, serviceVars>>

\* mark_read: MessageRead.FindFirst of the pair; its error is dropped
MarkReadFind(c, db) ==
    /\ handler[c].pc = "markFind"
    /\ LET existing ==
               /\ db = "ok"
               /\ ReceiptsOfPair(handler[c].messageID, handler[c].userID) # {}
       IN  handler' = [handler EXCEPT ![c] =
                IF existing THEN IdleHandler
                ELSE [@ EXCEPT !.pc = "markCreate"]]
    /\ emitted' = <<>>
    /\ returned' = "none"
    /\ UNCHANGED <<reset, dbVars, matchVars, messages, reads, connState, ctxUser,
                   rooms, broadcasts, nsends, serviceVars>>

\* mark_read: MessageRead.CreateOne; linking a message that is not stored fails
MarkReadCreate(c, db) ==
    /\ handler[c].pc = "markCreate"
    /\ IF db = "error" \/ handler[c].messageID \notin MessageIDs
       THEN /\ handler' = [handler EXCEPT ![c] = IdleHandler]
            /\ UNCHANGED reads
       ELSE /\ reads' = Append(reads, [messageID |-> handler[c].messageID,
                                       userID |-> handler[c].userID])
            /\ handler' = [handler EXCEPT ![c].pc = "markList"]
    /\ emitted' = <<>>
    /\ returned' = "none"
    /\ UNCHANGED <<reset, dbVars, matchVars, messages, connState, ctxUser, rooms,
                   broadcasts, nsends, serviceVars>>

\* readByUserIDs: the user ids of the receipts of a message, in query order
ReadByUserIDs(messageID) ==
    LET readReceipts == SelectSeq(reads, LAMBDA r : r.messageID = messageID)
    IN  [i \in 1..Len(readReceipts) |-> readReceipts[i].userID]

\* MarkReadList that reports the marking user only
MarkReadList_Delta(c, db) ==
    /\ handler[c].pc = "markList"
    /\ handler' = [handler EXCEPT ![c] =
            IF db = "error" THEN IdleHandler
            ELSE [@ EXCEPT !.pc = "markBroadcast",
                           !.readBy = <<handler[c].userID>>]]
    /\ emitted' = <<>>
    /\ returned' = "none"
    /\ UNCHANGED <<reset, dbVars, matchVars, messages, reads, connState, ctxUser,
                   rooms, broadcasts, nsends, serviceVars>>

\* mark_read: MessageRead.FindMany of the message
MarkReadList(c, db) ==
    /\ handler[c].pc = "markList"
    /\ handler' = [handler EXCEPT ![c] =
            IF db = "error" THEN IdleHandler
            ELSE [@ EXCEPT !.pc = "markBroadcast",
                           !.readBy = ReadByUserIDs(handler[c].messageID)]]
    /\ emitted' = <<>>
    /\ returned' = "none"
    /\ UNCHANGED <<reset, dbVars, matchVars, messages, reads, connState, ctxUser,
                   rooms, broadcasts, nsends, serviceVars>>

\* mark_read: BroadcastToRoom of message_read
MarkReadBroadcast(c) ==
    /\ handler[c].pc = "markBroadcast"
    /\ broadcasts' = Append(broadcasts,
            [room |-> handler[c].circleID, event |-> "message_read",
             data |-> [messageId |-> handler[c].messageID,
                       userId |-> handler[c].userID,
                       readBy |-> handler[c].readBy]])
    /\ handler' = [handler EXCEPT ![c] = IdleHandler]
    /\ emitted' = <<>>
    /\ returned' = "none"
    /\ UNCHANGED <<reset, dbVars, matchVars, messages, reads, connState, ctxUser,
                   rooms, nsends, serviceVars>>

\* the user_typing broadcasts so far
TypingBroadcasts ==
    {i \in 1..Len(broadcasts) : broadcasts[i].event = "user_typing"}

\* the typing handler that broadcasts to the named room whether or not the
\* connection has joined it
Typing_AnyRoom(c, circleID, typing) ==
    /\ connState[c] = "open"
    /\ handler[c].pc = "idle"
    /\ Cardinality(TypingBroadcasts) < MaxTypings
    /\ IF ctxUser[c] = NoUser
       THEN /\ \E state \in {"open", "closed"} :
                connState' = [connState EXCEPT ![c] = state]
            /\ UNCHANGED broadcasts
       ELSE /\ broadcasts' = Append(broadcasts,
                    [room |-> circleID, event |-> "user_typing",
                     data |-> [userId |-> ctxUser[c], typing |-> typing]])
            /\ UNCHANGED connState
    /\ emitted' = <<>>
    /\ returned' = IF ctxUser[c] = NoUser THEN "panic" ELSE "none"
    /\ UNCHANGED <<reset, dbVars, matchVars, messages, reads, ctxUser, rooms,
                   handler, nsends, serviceVars>>

\* the body that the typing_start and typing_stop handlers share.  The
\* assertion s.Context().(map[string]interface{}) has no ok result: on a
\* connection without a context it panics, and what the socket library does
\* with the panic is not in this repository, so the connection stays or goes;
\* returned records the panic.
Typing(c, circleID, typing) ==
    /\ connState[c] = "open"
    /\ handler[c].pc = "idle"
    /\ Cardinality(TypingBroadcasts) < MaxTypings
    /\ IF ctxUser[c] = NoUser
       THEN /\ \E state \in {"open", "closed"} :
                connState' = [connState EXCEPT ![c] = state]
            /\ UNCHANGED broadcasts
       ELSE /\ IF circleID \in rooms[c]
               THEN broadcasts' = Append(broadcasts,
                        [room |-> circleID, event |-> "user_typing",
                         data |-> [userId |-> ctxUser[c], typing |-> typing]])
               ELSE UNCHANGED broadcasts
            /\ UNCHANGED connState
    /\ emitted' = <<>>
    /\ returned' = IF ctxUser[c] = NoUser THEN "panic" ELSE "none"
    /\ UNCHANGED <<reset, dbVars, matchVars, messages, reads, ctxUser, rooms,
                   handler, nsends, serviceVars>>

typing_start(c, circleID) == Typing(c, circleID, TRUE)

typing_stop(c, circleID) == Typing(c, circleID, FALSE)

\* the transport reports the connection gone; OnDisconnect only logs
OnDisconnect(c) ==
    /\ connState[c] = "open"
    /\ connState' = [connState EXCEPT ![c] = "closed"]
    /\ emitted' = <<>>
    /\ returned' = "none"
    /\ UNCHANGED <<reset, dbVars, matchVars, messages, reads, ctxUser, rooms,
                   handler, broadcasts, nsends, serviceVars>>

\* a circle row as FindOrCreateCircle creates it
CircleRow(category, moderatorID, number, status) ==
    [category |-> category, status |-> status, moderatorID |-> moderatorID,
     name |-> <<CirclePrefix(category), number>>, maxMembers |-> MaxMembers]

Member(circleID, userID) == [circleID |-> circleID, userID |-> userID]

\* stored circles and memberships that MatchUserToCircle calls leave behind
SockStores ==
    { [circles |-> << CircleRow("ANXIETY_DEPRESSION", "m1", 1, "ACTIVE") >>,
       memberships |-> << Member(1, "u1") >>],
      [circles |-> << CircleRow("ANXIETY_DEPRESSION", "m1", 1, "ACTIVE"),
                      CircleRow("ACADEMIC_STRESS", "m2", 1, "ACTIVE") >>,
       memberships |-> << Member(1, "u1"), Member(2, "u2") >>] }

SockInit ==
    /\ moderators = <<"m1", "m2">>
    /\ \E store \in SockStores :
          /\ circles = store.circles
          /\ memberships = store.memberships
    /\ messages = <<>>
    /\ reads = <<>>
    /\ calls = [p \in Procs |-> IdleCall]
    /\ ncalls = 0
    /\ connState = [c \in Conns |-> "new"]
    /\ ctxUser = [c \in Conns |-> NoUser]
    /\ rooms = [c \in Conns |-> {}]
    /\ emitted = <<>>
    /\ returned = "none"
    /\ handler = [c \in Conns |-> IdleHandler]
    /\ broadcasts = <<>>
    /\ nsends = 0
    /\ reset = IdleReset
    /\ scan = IdleScan
    /\ onboarding = IdleOnboarding

SockNext ==
    \/ \E c \in Conns : OnConnect(c)
    \/ \E c \in Conns : \E token \in ClientTokens(c) :
            OnConnectToken(c, token)
    \/ \E c \in Conns : \E token \in ClientTokens(c) :
            Authenticate(c, token)
    \/ \E c \in Conns, db \in DbOutcomes : AuthFindMembership(c, db)
    \/ \E c \in Conns, db \in DbOutcomes : AuthCountMembers(c, db)
    \/ \E c \in Conns, db \in DbOutcomes : AuthFindModerator(c, db)
    \/ \E c \in Conns, in \in SendInputs :
            SendMessage(c, in[1], in[2], in[3])
    \/ \E c \in Conns, db \in DbOutcomes : CreateMessage(c, db)
    \/ \E c \in Conns, db \in DbOutcomes : CreateSenderReceipt(c, db)
    \/ \E c \in Conns : BroadcastNewMessage(c)
    \/ \E c \in Conns : OnDisconnect(c)

SpecSock == SockInit /\ [][SockNext]_vars

(***************************************************************************)
(* The matcher alone: concurrent MatchUserToCircle calls on an empty store. *)
(***************************************************************************)
MatchInit ==
    /\ moderators \in ModeratorLists
    /\ circles = <<>>
    /\ memberships = <<>>
    /\ messages = <<>>
    /\ reads = <<>>
    /\ calls = [p \in Procs |-> IdleCall]
    /\ ncalls = 0
    /\ connState = [c \in Conns |-> "new"]
    /\ ctxUser = [c \in Conns |-> NoUser]
    /\ rooms = [c \in Conns |-> {}]
    /\ emitted = <<>>
    /\ returned = "none"
    /\ handler = [c \in Conns |-> IdleHandler]
    /\ broadcasts = <<>>
    /\ nsends = 0
    /\ reset = IdleReset
    /\ scan = IdleScan
    /\ onboarding = IdleOnboarding

MatchNext ==
    \/ \E p \in Procs, t \in MatchTopicLists, s \in MatchScores :
        \E u \in CallerUsers(p) : MatchUserToCircle(p, u, t, s[1], s[2])
    \/ \E p \in Procs : FindOrCreateCircle(p)
    \/ \E p \in Procs : assignModeratorRoundRobin(p)
    \/ \E p \in Procs : generateCircleName(p)
    \/ \E p \in Procs : CreateCircle(p)
    \/ \E p \in Procs : AddUserToCircle(p)
    \/ \E p \in Procs : CreateMembership(p)
    \/ \E p \in Procs : RereadCircle(p)
    \/ \E p \in Procs : UpdateStatus(p)
    \/ \E p \in Procs : MatchReturn(p)

SpecMatch == MatchInit /\ [][MatchNext]_vars

(***************************************************************************)
(* MatchUserToCircle calls that run one at a time, on a store in which the *)
(* only circle of its category is active and one member short of full.     *)
(***************************************************************************)
\* the users matched before: the members the circle starts with
EarlierUser(i) == "e" \o ToString(i)

SeqStore ==
    [circles |-> << CircleRow("ANXIETY_DEPRESSION", "m1", 1, "ACTIVE") >>,
     memberships |-> [i \in 1..(MaxMembers - 1) |-> Member(1, EarlierUser(i))]]

SeqInit ==
    /\ moderators \in ModeratorLists
    /\ circles = SeqStore.circles
    /\ memberships = SeqStore.memberships
    /\ messages = <<>>
    /\ reads = <<>>
    /\ calls = [p \in Procs |-> IdleCall]
    /\ ncalls = 0
    /\ connState = [c \in Conns |-> "new"]
    /\ ctxUser = [c \in Conns |-> NoUser]
    /\ rooms = [c \in Conns |-> {}]
    /\ emitted = <<>>
    /\ returned = "none"
    /\ handler = [c \in Conns |-> IdleHandler]
    /\ broadcasts = <<>>
    /\ nsends = 0
    /\ reset = IdleReset
    /\ scan = IdleScan
    /\ onboarding = IdleOnboarding

\* no call of another caller is in progress
NoOtherCall(p) == \A q \in Procs \ {p} : calls[q].pc \in {"idle", "done"}

SeqNext ==
    \/ \E p \in Procs, t \in MatchTopicLists, s \in MatchScores :
        \E u \in CallerUsers(p) :
            NoOtherCall(p) /\ MatchUserToCircle(p, u, t, s[1], s[2])
    \/ \E p \in Procs : FindOrCreateCircle(p)
    \/ \E p \in Procs : assignModeratorRoundRobin(p)
    \/ \E p \in Procs : generateCircleName(p)
    \/ \E p \in Procs : CreateCircle(p)
    \/ \E p \in Procs : AddUserToCircle(p)
    \/ \E p \in Procs : CreateMembership(p)
    \/ \E p \in Procs : RereadCircle(p)
    \/ \E p \in Procs : UpdateStatus(p)
    \/ \E p \in Procs : MatchReturn(p)

SpecSeq == SeqInit /\ [][SeqNext]_vars

(***************************************************************************)
(* The two triage functions alone, applied to every pair of screening      *)
(* totals and to topic lists with and without crisis wording, one          *)
(* evaluation at a time.                                                   *)
(***************************************************************************)
MaxScore == 6
Scores == 0..MaxScore

T_SuicidalThoughts ==
    <<"s","u","i","c","i","d","a","l"," ","t","h","o","u","g","h","t","s">>
T_FeelingHopeless ==
    <<"F","e","e","l","i","n","g"," ","h","o","p","e","l","e","s","s">>
T_Other == <<"O","t","h","e","r">>
T_AdjustmentToCollege ==
    <<"A","d","j","u","s","t","m","e","n","t"," ","t","o"," ",
      "c","o","l","l","e","g","e">>

TriageTopicLists ==
    { <<>>, <<T_Other>>, <<T_LowMood>>, <<T_ExamStress>>,
      <<T_FeelingHopeless>>, <<T_LowMood, T_FeelingHopeless>>,
      <<T_SuicidalThoughts>>, <<T_SuicidalThoughts, T_LowMood>>,
      <<T_ExamStress, T_SuicidalThoughts>>,
      <<T_SuicidalThoughts, T_FeelingHopeless>>,
      <<T_AdjustmentToCollege>>, <<T_AdjustmentToCollege, T_ExamStress>>,
      <<T_ExamStress, T_LowMood>>, <<T_AdjustmentToCollege, T_LowMood>>,
      <<T_Other, T_AdjustmentToCollege, T_FeelingHopeless>> }

\* topics contains the topic
HasTopic(topics, topic) == \E i \in 1..Len(topics) : topics[i] = topic

\* a caller evaluates IsCriticalRisk and DetermineCircleCategory on its inputs
Triage(p, topics, phq2Total, gad2Total) ==
    /\ calls[p].pc = "idle"
    /\ calls' = [calls EXCEPT ![p] =
            [IdleCall EXCEPT
                !.pc = "done",
                !.phq2Total = phq2Total,
                !.gad2Total = gad2Total,
                !.topics = topics,
                !.category = DetermineCircleCategory(topics),
                !.ret = [circle |-> NoCircle,
                         isCritical |-> IsCriticalRisk(phq2Total, gad2Total),
                         err |-> ""]]]
    /\ UNCHANGED <<dbVars, ncalls, sockVars, reset, serviceVars>>

TriageNext ==
    \/ \E p \in Procs, t \in TriageTopicLists :
        \E phq2Total \in Scores, gad2Total \in Scores :
            /\ \A q \in Procs : calls[q].pc = "idle"
            /\ Triage(p, t, phq2Total, gad2Total)
    \/ \E p \in Procs : MatchReturn(p)

SpecTriage == MatchInit /\ [][TriageNext]_vars

(***************************************************************************)
(* The rules: of each pattern of safetyPatterns that the texts below can   *)
(* meet, the alternatives they can meet, in the order of the pattern and   *)
(* of the list.  The texts hold one blank between words, which is what     *)
(* \s+ asks for at least.                                                  *)
(***************************************************************************)
P_KillMyself ==
    <<"k", "i", "l", "l", " ", "m", "y", "s", "e", "l", "f">>
P_Suicide ==
    <<"s", "u", "i", "c", "i", "d", "e">>
P_Overdose ==
    <<"o", "v", "e", "r", "d", "o", "s", "e">>
P_KillThem ==
    <<"k", "i", "l", "l", " ", "t", "h", "e", "m">>
P_Murder ==
    <<"m", "u", "r", "d", "e", "r">>
P_Purge ==
    <<"p", "u", "r", "g", "e">>
P_EatAndPurge ==
    <<"e", "a", "t", " ", "a", "n", "d", " ", "p", "u", "r", "g", "e">>
P_ThreatensToKill ==
    <<"t", "h", "r", "e", "a", "t", "e", "n", "s", " ", "t", "o",
      " ", "k", "i", "l", "l">>

safetyPatterns ==
    << [Pattern |-> <<P_KillMyself, P_Suicide>>,
        Category |-> "self_harm", Severity |-> "critical"],
       [Pattern |-> <<P_Overdose>>,
        Category |-> "self_harm", Severity |-> "critical"],
       [Pattern |-> <<P_KillThem, P_Murder>>,
        Category |-> "harm_to_others", Severity |-> "critical"],
       [Pattern |-> <<P_Overdose>>,
        Category |-> "substance_abuse", Severity |-> "critical"],
       [Pattern |-> <<P_Purge>>,
        Category |-> "eating_disorder", Severity |-> "high"],
       [Pattern |-> <<P_EatAndPurge>>,
        Category |-> "eating_disorder", Severity |-> "high"],
       [Pattern |-> <<P_ThreatensToKill>>,
        Category |-> "domestic_abuse", Severity |-> "critical"] >>

\* \b at character position k: a word character on exactly one side
WordBoundary(content, k) ==
    LET before == k > 1 /\ content[k - 1] \in WordChars
        after == k <= Len(content) /\ content[k] \in WordChars
    IN  before # after

\* the alternative matches the characters from position k on, between two \b
AlternativeAt(content, k, alternative) ==
    /\ k + Len(alternative) - 1 <= Len(content)
    /\ \A i \in 1..Len(alternative) :
           FoldsTo(content[k + i - 1], alternative[i])
    /\ WordBoundary(content, k)
    /\ WordBoundary(content, k + Len(alternative))

\* the number of characters the pattern matches at position k: those of its
\* first alternative that matches there, 0 when none does
MatchLenAt(content, k, pattern) ==
    LET hits == {a \in 1..Len(pattern) : AlternativeAt(content, k, pattern[a])}
    IN  IF hits = {} THEN 0
        ELSE Len(pattern[CHOOSE a \in hits : \A b \in hits : a <= b])

\* Pattern.FindAllStringIndex(content, -1): the successive leftmost matches,
\* none overlapping the one before, as byte offsets [start, end)
RECURSIVE FindAllFrom(_, _, _)
FindAllFrom(content, k, pattern) ==
    IF k > Len(content) THEN <<>>
    ELSE LET n == MatchLenAt(content, k, pattern)
         IN  IF n = 0 THEN FindAllFrom(content, k + 1, pattern)
             ELSE <<[start |-> OffsetOf(content, k),
                     end |-> OffsetOf(content, k + n),
                     text |-> SubSeq(content, k, k + n - 1)]>>
                  \o FindAllFrom(content, k + n, pattern)

FindAllStringIndex(content, pattern) == FindAllFrom(content, 1, pattern)

\* the loop of CheckContent over the patterns from pattern r on
RECURSIVE CollectMatches(_, _)
CollectMatches(content, r) ==
    IF r > Len(safetyPatterns) THEN <<>>
    ELSE LET allMatches ==
                 FindAllStringIndex(content, safetyPatterns[r].Pattern)
         IN  [i \in 1..Len(allMatches) |->
                 [Category |-> safetyPatterns[r].Category,
                  Severity |-> safetyPatterns[r].Severity,
                  MatchedText |-> allMatches[i].text,
                  Start |-> allMatches[i].start,
                  End |-> allMatches[i].end]]
             \o CollectMatches(content, r + 1)

\* the matchPos of a SafetyMatch
MatchPosOf(m) ==
    [start |-> m.Start, end |-> m.End, category |-> m.Category,
     severity |-> m.Severity]

ScanGoto(pc) == scan' = [scan EXCEPT !.pc = pc]

\* CheckContent that asks for escalation whenever a pattern matched
CheckContent_EscalatesFlagged ==
    /\ scan.pc = "CheckContent"
    /\ IF TrimSpace(scan.content) = <<>>
       THEN scan' = [scan EXCEPT
                !.pc = "done",
                !.result = [NoResult EXCEPT !.MaskedContent = scan.content]]
       ELSE LET Matches == CollectMatches(scan.content, 1)
                Flagged == Len(Matches) > 0
            IN  scan' = [scan EXCEPT
                    !.pc = IF Flagged THEN "maskContent" ELSE "done",
                    !.matches = [i \in 1..Len(Matches) |->
                                    MatchPosOf(Matches[i])],
                    !.result = [Flagged |-> Flagged,
                                MaskedContent |-> scan.content,
                                Matches |-> Matches,
                                RequiresEscalation |-> Flagged]]
    /\ UNCHANGED <<dbVars, matchVars, sockVars, reset, onboarding>>

\* CheckContent that returns the trimmed content
CheckContent_Trimmed ==
    /\ scan.pc = "CheckContent"
    /\ IF TrimSpace(scan.content) = <<>>
       THEN scan' = [scan EXCEPT
                !.pc = "done",
                !.result = [NoResult EXCEPT
                               !.MaskedContent = TrimSpace(scan.content)]]
       ELSE LET Matches == CollectMatches(scan.content, 1)
                Flagged == Len(Matches) > 0
                RequiresEscalation ==
                    \E i \in 1..Len(Matches) : Matches[i].Severity = "critical"
            IN  scan' = [scan EXCEPT
                    !.pc = IF Flagged THEN "maskContent" ELSE "done",
                    !.matches = [i \in 1..Len(Matches) |->
                                    MatchPosOf(Matches[i])],
                    !.result = [Flagged |-> Flagged,
                                MaskedContent |-> TrimSpace(scan.content),
                                Matches |-> Matches,
                                RequiresEscalation |-> RequiresEscalation]]
    /\ UNCHANGED <<dbVars, matchVars, sockVars, reset, onboarding>>

\* CheckContent up to its call of maskContent
CheckContent ==
    /\ scan.pc = "CheckContent"
    /\ IF TrimSpace(scan.content) = <<>>
       THEN scan' = [scan EXCEPT
                !.pc = "done",
                !.result = [NoResult EXCEPT !.MaskedContent = scan.content]]
       ELSE LET Matches == CollectMatches(scan.content, 1)
                Flagged == Len(Matches) > 0
                RequiresEscalation ==
                    \E i \in 1..Len(Matches) : Matches[i].Severity = "critical"
            IN  scan' = [scan EXCEPT
                    !.pc = IF Flagged THEN "maskContent" ELSE "done",
                    !.matches = [i \in 1..Len(Matches) |->
                                    MatchPosOf(Matches[i])],
                    !.result = [Flagged |-> Flagged,
                                MaskedContent |-> scan.content,
                                Matches |-> Matches,
                                RequiresEscalation |-> RequiresEscalation]]
    /\ UNCHANGED <<dbVars, matchVars, sockVars, reset, onboarding>>

Swap(matches, i, j) ==
    [matches EXCEPT ![i] = matches[j], ![j] = matches[i]]

\* the two loops of maskContent that order the matches by start, descending
RECURSIVE SortMatches(_, _, _)
SortMatches(matches, i, j) ==
    IF i > Len(matches) THEN matches
    ELSE IF j > Len(matches) THEN SortMatches(matches, i + 1, i + 2)
    ELSE SortMatches(IF matches[j].start > matches[i].start
                     THEN Swap(matches, i, j) ELSE matches,
                     i, j + 1)

\* maskContent: the empty case and the ordering of the matches
maskContent ==
    /\ scan.pc = "maskContent"
    /\ IF Len(scan.matches) = 0
       THEN scan' = [scan EXCEPT !.pc = "done",
                                 !.result.MaskedContent = scan.content]
       ELSE scan' = [scan EXCEPT !.pc = "merge",
                                 !.matches = SortMatches(scan.matches, 1, 2)]
    /\ UNCHANGED <<dbVars, matchVars, sockVars, reset, onboarding>>

\* the merge loop without the extension of the end of the merged range
RECURSIVE MergeFrom_KeepsEnd(_, _, _)
MergeFrom_KeepsEnd(matches, i, merged) ==
    IF i > Len(matches) THEN merged
    ELSE LET current == matches[i]
             last == merged[Len(merged)]
         IN  IF current.end >= last.start
             THEN MergeFrom_KeepsEnd(matches, i + 1,
                    [merged EXCEPT ![Len(merged)] =
                        [last EXCEPT
                            !.start = IF current.start < last.start
                                      THEN current.start ELSE last.start]])
             ELSE MergeFrom_KeepsEnd(matches, i + 1, Append(merged, current))

\* the loop of maskContent that merges the ranges, from match i on
RECURSIVE MergeFrom(_, _, _)
MergeFrom(matches, i, merged) ==
    IF i > Len(matches) THEN merged
    ELSE LET current == matches[i]
             last == merged[Len(merged)]
         IN  IF current.end >= last.start
             THEN MergeFrom(matches, i + 1,
                    [merged EXCEPT ![Len(merged)] =
                        [last EXCEPT
                            !.start = IF current.start < last.start
                                      THEN current.start ELSE last.start,
                            !.end = IF current.end > last.end
                                    THEN current.end ELSE last.end,
                            !.severity = IF current.severity = "critical"
                                         THEN "critical" ELSE last.severity]])
             ELSE MergeFrom(matches, i + 1, Append(merged, current))

\* maskContent: the merge of overlapping and adjacent ranges
MergeMatches ==
    /\ scan.pc = "merge"
    /\ scan' = [scan EXCEPT
            !.pc = "mask",
            !.merged = MergeFrom(scan.matches, 2, <<scan.matches[1]>>)]
    /\ UNCHANGED <<dbVars, matchVars, sockVars, reset, onboarding>>

\* strings.Repeat of the masking character
Repeat(n) == [i \in 1..n |-> MaskChar]

\* the loop of maskContent over the merged ranges, from range i on, on the
\* runes of the content; the slice runes[match.end:] is out of range when
\* match.end exceeds the number of runes
RECURSIVE MaskFrom(_, _, _)
MaskFrom(runes, merged, i) ==
    IF i > Len(merged) THEN [panic |-> FALSE, runes |-> runes]
    ELSE LET match == merged[i]
             maskLength == match.end - match.start
         IN  IF match.end > Len(runes)
             THEN [panic |-> TRUE, runes |-> runes]
             ELSE MaskFrom(SubSeq(runes, 1, match.start) \o Repeat(maskLength)
                               \o SubSeq(runes, match.end + 1, Len(runes)),
                           merged, i + 1)

\* maskContent: the masking, and the return into the result
ApplyMask ==
    /\ scan.pc = "mask"
    /\ LET masked == MaskFrom(scan.content, scan.merged, 1)
       IN  IF masked.panic
           THEN ScanGoto("panic")
           ELSE scan' = [scan EXCEPT !.pc = "done",
                                     !.result.MaskedContent = masked.runes]
    /\ UNCHANGED <<dbVars, matchVars, sockVars, reset, onboarding>>

\* the caller takes the result
ScanReturn ==
    /\ scan.pc \in {"done", "panic"}
    /\ scan' = IdleScan
    /\ UNCHANGED <<dbVars, matchVars, sockVars, reset, onboarding>>

(***************************************************************************)
(* CheckContent alone, on texts with and without matches.                  *)
(***************************************************************************)
X_Empty ==
    <<>>
X_Blanks ==
    <<" ", " ">>
X_Hello ==
    <<" ", "h", "e", "l", "l", "o", " ", "t", "h", "e", "r", "e", " ">>
X_Purged ==
    <<"p", "u", "r", "g", "e", "d">>
X_Purge ==
    <<"I", " ", "p", "u", "r", "g", "e">>
X_EatAndPurge ==
    <<"e", "a", "t", " ", "a", "n", "d", " ", "p", "u", "r", "g", "e">>
X_KillMyself ==
    <<"K", "i", "l", "l", " ", "M", "y", "s", "e", "l", "f">>
X_Overdose ==
    <<"o", "v", "e", "r", "d", "o", "s", "e">>
X_Threat ==
    <<"h", "e", " ", "t", "h", "r", "e", "a", "t", "e", "n", "s",
      " ", "t", "o", " ", "k", "i", "l", "l", " ", "t", "h", "e",
      "m">>
X_MurderTwice ==
    <<"m", "u", "r", "d", "e", "r", ",", " ", "m", "u", "r", "d",
      "e", "r">>
X_PurgeOverdose ==
    <<"p", "u", "r", "g", "e", " ", "t", "h", "e", "n", " ", "o",
      "v", "e", "r", "d", "o", "s", "e">>
X_LongS ==
    <<"o", "v", "e", "r", "d", "o", LongS, "e">>

ScanCores ==
    { X_Empty, X_Blanks, X_Hello, X_Purged, X_Purge, X_EatAndPurge,
      X_KillMyself, X_Overdose, X_Threat, X_MurderTwice, X_PurgeOverdose,
      X_LongS }
\* what a text may start and end with
ScanPrefixes == { <<>>, <<EAcute, " ">>, <<"s", "o", " ">> }
ScanSuffixes == { <<>>, <<" ", "o", "k", " ", "n", "o", "w">> }
ScanTexts ==
    { pre \o core \o suf :
        pre \in ScanPrefixes, core \in ScanCores, suf \in ScanSuffixes }

\* a caller hands a text to CheckContent
StartScan(content) ==
    /\ scan.pc = "idle"
    /\ scan' = [IdleScan EXCEPT !.pc = "CheckContent", !.content = content]
    /\ UNCHANGED <<dbVars, matchVars, sockVars, reset, onboarding>>

ScanNext ==
    \/ \E content \in ScanTexts : StartScan(content)
    \/ CheckContent
    \/ maskContent
    \/ MergeMatches
    \/ ApplyMask
    \/ ScanReturn

SpecScan == MatchInit /\ [][ScanNext]_vars

(***************************************************************************)
(* maskContent alone, on every list of up to MaxSpans ranges over a text,  *)
(* the ranges given as positions in the text's characters.                 *)
(***************************************************************************)
MaskTexts == { <<"a", "b", "c", "d">>, <<EAcute, "b", LongS, "d">> }

\* the ranges [start, end) over a text of n characters, empty ones included
SpansOver(n) ==
    { [start |-> a, end |-> b, category |-> "self_harm", severity |-> "high"] :
        a \in 0..n, b \in 0..n } \cap
    { m \in [start : 0..n, end : 0..n, category : {"self_harm"},
             severity : {"high"}] : m.start <= m.end }

SpanLists(n) ==
    UNION { [1..len -> SpansOver(n)] : len \in 0..MaxSpans }

MaskInit ==
    /\ moderators = <<>>
    /\ circles = <<>>
    /\ memberships = <<>>
    /\ messages = <<>>
    /\ reads = <<>>
    /\ calls = [p \in Procs |-> IdleCall]
    /\ ncalls = 0
    /\ connState = [c \in Conns |-> "new"]
    /\ ctxUser = [c \in Conns |-> NoUser]
    /\ rooms = [c \in Conns |-> {}]
    /\ emitted = <<>>
    /\ returned = "none"
    /\ handler = [c \in Conns |-> IdleHandler]
    /\ broadcasts = <<>>
    /\ nsends = 0
    /\ reset = IdleReset
    /\ onboarding = IdleOnboarding
    /\ \E content \in MaskTexts :
        \E matches \in SpanLists(Len(content)) :
            scan = [IdleScan EXCEPT !.pc = "maskContent",
                                    !.content = content,
                                    !.result.MaskedContent = content,
                                    !.matches = matches]

MaskNext ==
    \/ maskContent
    \/ MergeMatches
    \/ ApplyMask

SpecMask == MaskInit /\ [][MaskNext]_vars

(***************************************************************************)
(* resetDatabase, the administrative program that deletes all rows and     *)
(* creates the moderator accounts anew, one step per persistence call.     *)
(* Each failure is logged only.                                            *)
(***************************************************************************)
\* the moderator accounts resetDatabase creates
ResetModerators == <<"r1", "r2", "r3">>

\* the run goes on to its next persistence call
ResetGoto(pc) == reset' = [reset EXCEPT !.pc = pc]

\* resetDatabase up to MessageRead.FindMany().Delete()
resetDatabase(db) ==
    /\ reset.pc = "idle"
    /\ reset.runs < MaxResets
    /\ reset' = [pc |-> "messages", created |-> 0, runs |-> reset.runs + 1]
    /\ reads' = IF db = "ok" THEN <<>> ELSE reads
    /\ UNCHANGED <<dbVars, matchVars, messages, connState, ctxUser, rooms,
                   emitted, handler, returned, broadcasts, nsends, serviceVars>>

\* resetDatabase: Message.FindMany().Delete()
DeleteMessages(db) ==
    /\ reset.pc = "messages"
    /\ ResetGoto("memberships")
    /\ messages' = IF db = "ok"
                   THEN [i \in 1..Len(messages) |-> DeletedMessage]
                   ELSE messages
    /\ UNCHANGED <<dbVars, matchVars, reads, connState, ctxUser, rooms,
                   emitted, handler, returned, broadcasts, nsends, serviceVars>>

\* resetDatabase: CircleMembership.FindMany().Delete()
DeleteMemberships(db) ==
    /\ reset.pc = "memberships"
    /\ ResetGoto("circles")
    /\ memberships' = IF db = "ok" THEN <<>> ELSE memberships
    /\ UNCHANGED <<moderators, circles, matchVars, messages, reads, connState,
                   ctxUser, rooms, emitted, handler, returned, broadcasts,
                   nsends, serviceVars>>

\* resetDatabase: Circle.FindMany().Delete()
DeleteCircles(db) ==
    /\ reset.pc = "circles"
    /\ ResetGoto("onboarding")
    /\ circles' = IF db = "ok"
                  THEN [i \in 1..Len(circles) |->
                            [circles[i] EXCEPT !.status = "DELETED"]]
                  ELSE circles
    /\ UNCHANGED <<moderators, memberships, matchVars, messages, reads,
                   connState, ctxUser, rooms, emitted, handler, returned,
                   broadcasts, nsends, serviceVars>>

\* resetDatabase: OnboardingResponse.FindMany().Delete(); the rows are not
\* part of the model
DeleteOnboardingResponses(db) ==
    /\ reset.pc = "onboarding"
    /\ ResetGoto("users")
    /\ UNCHANGED <<dbVars, matchVars, sockVars, serviceVars>>

\* resetDatabase: User.FindMany().Delete()
DeleteUsers(db) ==
    /\ reset.pc = "users"
    /\ ResetGoto("moderators")
    /\ moderators' = IF db = "ok" THEN <<>> ELSE moderators
    /\ UNCHANGED <<circles, memberships, matchVars, sockVars, serviceVars>>

\* resetDatabase: User.CreateOne of the next moderator account
CreateModerator(db) ==
    /\ reset.pc = "moderators"
    /\ LET next == reset.created + 1
       IN  /\ moderators' = IF db = "ok"
                            THEN Append(moderators, ResetModerators[next])
                            ELSE moderators
           /\ reset' = [reset EXCEPT
                 !.created = IF next = Len(ResetModerators) THEN 0 ELSE next,
                 !.pc = IF next = Len(ResetModerators) THEN "idle" ELSE @]
    /\ UNCHANGED <<circles, memberships, matchVars, sockVars, serviceVars>>

(***************************************************************************)
(* Read receipts: two members of one circle, of which u1 may be connected  *)
(* twice, send messages and mark them read.                                *)
(***************************************************************************)
\* the tokens the client of each connection presents
ReadTokens(c) ==
    IF c = "s1" THEN {Token("u1", TRUE)}
    ELSE {Token("u1", TRUE), Token("u2", TRUE)}

\* circle 1 of moderator m1 after u1 and u2 were matched to it
ReadStore ==
    [circles |-> << CircleRow("ANXIETY_DEPRESSION", "m1", 1,
                        IF 2 >= MaxMembers THEN "FULL" ELSE "ACTIVE") >>,
     memberships |-> << Member(1, "u1"), Member(1, "u2") >>]

ReadInit ==
    /\ moderators = <<"m1", "m2">>
    /\ circles = ReadStore.circles
    /\ memberships = ReadStore.memberships
    /\ messages = <<>>
    /\ reads = <<>>
    /\ calls = [p \in Procs |-> IdleCall]
    /\ ncalls = 0
    /\ connState = [c \in Conns |-> "new"]
    /\ ctxUser = [c \in Conns |-> NoUser]
    /\ rooms = [c \in Conns |-> {}]
    /\ emitted = <<>>
    /\ returned = "none"
    /\ handler = [c \in Conns |-> IdleHandler]
    /\ broadcasts = <<>>
    /\ nsends = 0
    /\ reset = IdleReset
    /\ scan = IdleScan
    /\ onboarding = IdleOnboarding

ReadNext ==
    \/ \E c \in Conns : \E token \in ReadTokens(c) : OnConnectToken(c, token)
    \/ \E c \in Conns : AuthFindMembership(c, "ok")
    \/ \E c \in Conns : AuthCountMembers(c, "ok")
    \/ \E c \in Conns : SendMessage(c, Payload(1, PaddedHi), "ok", "ok")
    \/ \E c \in Conns : CreateMessage(c, "ok")
    \/ \E c \in Conns, db \in DbOutcomes : CreateSenderReceipt(c, db)
    \/ \E c \in Conns : BroadcastNewMessage(c)
    \/ \E c \in Conns, in \in MarkInputs : MarkRead(c, in[1], in[2], in[3])
    \/ \E c \in Conns, db \in DbOutcomes : MarkReadFind(c, db)
    \/ \E c \in Conns, db \in DbOutcomes : MarkReadCreate(c, db)
    \/ \E c \in Conns, db \in DbOutcomes : MarkReadList(c, db)
    \/ \E c \in Conns : MarkReadBroadcast(c)

SpecRead == ReadInit /\ [][ReadNext]_vars

(***************************************************************************)
(* Sending alone, with the handlers running to completion: a handler that  *)
(* has started is a goroutine that is scheduled until it returns, and      *)
(* every persistence call returns.                                         *)
(***************************************************************************)
SendNext ==
    \/ \E c \in Conns : \E token \in ReadTokens(c) : OnConnectToken(c, token)
    \/ \E c \in Conns : AuthFindMembership(c, "ok")
    \/ \E c \in Conns : AuthCountMembers(c, "ok")
    \/ \E c \in Conns : SendMessage(c, Payload(1, PaddedHi), "ok", "ok")
    \/ \E c \in Conns, db \in DbOutcomes : CreateMessage(c, db)
    \/ \E c \in Conns, db \in DbOutcomes : CreateSenderReceipt(c, db)
    \/ \E c \in Conns : BroadcastNewMessage(c)
    \/ \E c \in Conns : OnDisconnect(c)

SendFairness ==
    \A c \in Conns :
        /\ WF_vars(\E db \in DbOutcomes : CreateMessage(c, db))
        /\ WF_vars(\E db \in DbOutcomes : CreateSenderReceipt(c, db))
        /\ WF_vars(BroadcastNewMessage(c))

SpecSendFair == ReadInit /\ [][SendNext]_vars /\ SendFairness

(***************************************************************************)
(* send_message with contents that the safety service flags and contents   *)
(* that it does not.                                                       *)
(***************************************************************************)
SafetySendData ==
    { Payload(1, PaddedHi), Payload(1, X_Purge),
      Payload(1, <<" ">> \o X_KillMyself \o <<" ">>) }

SafetySendNext ==
    \/ \E c \in Conns : \E token \in ReadTokens(c) : OnConnectToken(c, token)
    \/ \E c \in Conns : AuthFindMembership(c, "ok")
    \/ \E c \in Conns : AuthCountMembers(c, "ok")
    \/ \E c \in Conns, data \in SafetySendData :
            SendMessage(c, data, "ok", "ok")
    \/ \E c \in Conns, db \in DbOutcomes : CreateMessage(c, db)
    \/ \E c \in Conns, db \in DbOutcomes : CreateSenderReceipt(c, db)
    \/ \E c \in Conns : BroadcastNewMessage(c)
    \/ \E c \in Conns : OnDisconnect(c)

SpecSafetySend == ReadInit /\ [][SafetySendNext]_vars

(***************************************************************************)
(* Typing indicators next to authentication and sending.                   *)
(***************************************************************************)
TypingNext ==
    \/ \E c \in Conns : OnConnect(c)
    \/ \E c \in Conns : \E token \in ClientTokens(c) :
            OnConnectToken(c, token)
    \/ \E c \in Conns : \E token \in ClientTokens(c) :
            Authenticate(c, token)
    \/ \E c \in Conns : AuthFindMembership(c, "ok")
    \/ \E c \in Conns : AuthCountMembers(c, "ok")
    \/ \E c \in Conns : AuthFindModerator(c, "ok")
    \/ \E c \in Conns, circleID \in PayloadCircleIDs :
            typing_start(c, circleID)
    \/ \E c \in Conns, circleID \in PayloadCircleIDs :
            typing_stop(c, circleID)
    \/ \E c \in Conns : OnDisconnect(c)

SpecTyping == SockInit /\ [][TypingNext]_vars

(***************************************************************************)
(* The onboarding handler.  One SubmitOnboarding request runs at a time, as *)
(* caller p1 of the matcher; each persistence call is a step.              *)
(***************************************************************************)
T_Anxiety == <<"A","n","x","i","e","t","y">>
T_Motivation == <<"M","o","t","i","v","a","t","i","o","n">>
T_SleepIssues == <<"S","l","e","e","p"," ","i","s","s","u","e","s">>
T_RelationshipStress ==
    <<"R","e","l","a","t","i","o","n","s","h","i","p"," ",
      "s","t","r","e","s","s">>

\* a topic set that also admits a topic of hopelessness
allowedTopics_WithHopeless ==
    {T_ExamStress, T_Anxiety, T_LowMood, T_Motivation, T_SleepIssues,
     T_RelationshipStress, T_AdjustmentToCollege, T_Other, T_FeelingHopeless}

allowedTopics ==
    {T_ExamStress, T_Anxiety, T_LowMood, T_Motivation, T_SleepIssues,
     T_RelationshipStress, T_AdjustmentToCollege, T_Other}
participationOptions ==
    {"Mostly listen", "Share & get support", "Learn coping tools",
     "Not sure yet"}
availabilityOptions == {"Morning", "Afternoon", "Evening"}

isValidScaleValue(value) == value >= 0 /\ value <= 3

\* validateOnboardingRequest: the message of the first failed test, or ""
validateOnboardingRequest(req) ==
    LET trimmed == [i \in 1..Len(req.Topics) |-> TrimSpace(req.Topics[i])]
    IN  IF Len(req.Topics) = 0
        THEN "Please complete this field."
        ELSE IF \E i \in 1..Len(trimmed) :
                    trimmed[i] # <<>> /\ trimmed[i] \notin allowedTopics
        THEN "Please complete this field."
        ELSE IF \A i \in 1..Len(trimmed) : trimmed[i] = <<>>
        THEN "Please complete this field."
        ELSE IF req.ParticipationStyle \notin participationOptions
        THEN "Please complete this field."
        ELSE IF req.Availability \notin availabilityOptions
        THEN "Please complete this field."
        ELSE IF \/ ~isValidScaleValue(req.Wellbeing.LittleInterest)
                \/ ~isValidScaleValue(req.Wellbeing.FeelingDown)
                \/ ~isValidScaleValue(req.Wellbeing.FeelingNervous)
                \/ ~isValidScaleValue(req.Wellbeing.Worrying)
        THEN "Please complete this field."
        ELSE IF ~req.ConsentAccepted
        THEN "You need to accept to continue."
        ELSE IF TrimSpace(req.ConsentVersion) = <<>>
        THEN "Please complete this field."
        ELSE ""

\* dedupeAndTrimTopics: the trimmed allowed topics, each once, in input order
RECURSIVE dedupeAndTrimTopics(_)
dedupeAndTrimTopics(input) ==
    IF input = <<>> THEN <<>>
    ELSE LET front == dedupeAndTrimTopics(SubSeq(input, 1, Len(input) - 1))
             clean == TrimSpace(input[Len(input)])
         IN  IF \/ clean = <<>>
                \/ clean \notin allowedTopics
                \/ \E i \in 1..Len(front) : front[i] = clean
             THEN front
             ELSE Append(front, clean)

\* the request body as ShouldBindJSON reads it: not bound, or an
\* OnboardingRequest
Wellbeing(a, b, c, d) ==
    [LittleInterest |-> a, FeelingDown |-> b, FeelingNervous |-> c,
     Worrying |-> d]
Request(topics, wellbeing, consent) ==
    [bound |-> TRUE, Topics |-> topics, ParticipationStyle |-> "Mostly listen",
     Availability |-> "Evening", Wellbeing |-> wellbeing,
     ConsentAccepted |-> consent, ConsentVersion |-> <<"v","1">>]
NoRequest == [Request(<<>>, Wellbeing(0, 0, 0, 0), FALSE) EXCEPT !.bound = FALSE]

\* the emails that the handler hands to the email service
CriticalRiskAlert(userID, phq2Total, gad2Total, topics) ==
    [mail |-> "CriticalRiskAlert", userID |-> userID, phq2Total |-> phq2Total,
     gad2Total |-> gad2Total, topics |-> topics]
CircleMatchNotification(userID, circleID) ==
    [mail |-> "CircleMatchNotification", userID |-> userID,
     circleID |-> circleID]

\* the request ends with an HTTP status
Respond(status) ==
    onboarding' = [onboarding EXCEPT !.pc = "idle", !.status = status]

\* SubmitOnboarding up to OnboardingResponse.FindUnique; userID is NoUser when
\* the context carries none
SubmitOnboarding(role, req, userID) ==
    /\ onboarding.pc = "idle"
    /\ calls["p1"].pc = "idle"
    /\ IF role = "MODERATOR" THEN Respond(403)
       ELSE IF ~req.bound THEN Respond(400)
       ELSE IF validateOnboardingRequest(req) # "" THEN Respond(400)
       ELSE IF userID = NoUser THEN Respond(401)
       ELSE onboarding' = [onboarding EXCEPT
                !.pc = "FindUnique",
                !.userID = userID,
                !.phq2Total = req.Wellbeing.LittleInterest
                                + req.Wellbeing.FeelingDown,
                !.gad2Total = req.Wellbeing.FeelingNervous
                                + req.Wellbeing.Worrying,
                !.topics = dedupeAndTrimTopics(req.Topics),
                !.circle = NoCircle,
                !.status = 0]
    /\ UNCHANGED <<dbVars, matchVars, sockVars, reset, scan>>

\* OnboardingResponse.FindUnique of the user: the row, ErrNotFound, or an
\* error
FindOnboardingResponse(db) ==
    /\ onboarding.pc = "FindUnique"
    /\ IF db = "error" THEN Respond(500)
       ELSE onboarding' = [onboarding EXCEPT !.pc =
                IF onboarding.userID \in onboarding.responses
                THEN "Update" ELSE "CreateOne"]
    /\ UNCHANGED <<dbVars, matchVars, sockVars, reset, scan>>

\* OnboardingResponse.CreateOne
CreateOnboardingResponse(db) ==
    /\ onboarding.pc = "CreateOne"
    /\ IF db = "error" THEN Respond(500)
       ELSE onboarding' = [onboarding EXCEPT
                !.pc = "MarkOnboarded",
                !.responses = @ \cup {onboarding.userID}]
    /\ UNCHANGED <<dbVars, matchVars, sockVars, reset, scan>>

\* OnboardingResponse.FindUnique(...).Update
UpdateOnboardingResponse(db) ==
    /\ onboarding.pc = "Update"
    /\ IF db = "error" THEN Respond(500)
       ELSE onboarding' = [onboarding EXCEPT !.pc = "MarkOnboarded"]
    /\ UNCHANGED <<dbVars, matchVars, sockVars, reset, scan>>

\* User.FindUnique(...).Update(OnboardingCompleted.Set(true))
MarkOnboarded(db) ==
    /\ onboarding.pc = "MarkOnboarded"
    /\ IF db = "error" THEN Respond(500)
       ELSE onboarding' = [onboarding EXCEPT
                !.pc = "MatchUserToCircle",
                !.completed = @ \cup {onboarding.userID}]
    /\ UNCHANGED <<dbVars, matchVars, sockVars, reset, scan>>

\* the handler calls the matcher and waits for its result
OnboardingMatch ==
    /\ onboarding.pc = "MatchUserToCircle"
    /\ MatchUserToCircle("p1", onboarding.userID, onboarding.topics,
                         onboarding.phq2Total, onboarding.gad2Total)

\* a handler that notifies the matched and never alerts
OnboardingNotify_NoAlert ==
    /\ onboarding.pc = "MatchUserToCircle"
    /\ calls["p1"].pc = "done"
    /\ LET ret == calls["p1"].ret
       IN  IF ret.err = "" /\ ret.circle # NoCircle
           THEN onboarding' = [onboarding EXCEPT !.pc = "FindModerator",
                                                 !.circle = ret.circle]
           ELSE onboarding' = [onboarding EXCEPT !.pc = "GenerateJWT"]
    /\ calls' = [calls EXCEPT !["p1"] = IdleCall]
    /\ UNCHANGED <<dbVars, ncalls, sockVars, reset, scan>>

\* the handler takes the result of the matcher: the alert for a critical
\* user, nothing after an error, the notification for a matched user
OnboardingNotify ==
    /\ onboarding.pc = "MatchUserToCircle"
    /\ calls["p1"].pc = "done"
    /\ LET ret == calls["p1"].ret
       IN  IF ret.isCritical
           THEN onboarding' = [onboarding EXCEPT
                    !.pc = "GenerateJWT",
                    !.emails = Append(@,
                        CriticalRiskAlert(onboarding.userID,
                                          onboarding.phq2Total,
                                          onboarding.gad2Total,
                                          onboarding.topics))]
           ELSE IF ret.err # ""
           THEN onboarding' = [onboarding EXCEPT !.pc = "GenerateJWT"]
           ELSE IF ret.circle # NoCircle
           THEN onboarding' = [onboarding EXCEPT !.pc = "FindModerator",
                                                 !.circle = ret.circle]
           ELSE onboarding' = [onboarding EXCEPT !.pc = "GenerateJWT"]
    /\ calls' = [calls EXCEPT !["p1"] = IdleCall]
    /\ UNCHANGED <<dbVars, ncalls, sockVars, reset, scan>>

\* User.FindUnique of the moderator of the circle, and the notification
FindModerator(db) ==
    /\ onboarding.pc = "FindModerator"
    /\ onboarding' = [onboarding EXCEPT
            !.pc = "GenerateJWT",
            !.emails = IF db = "ok"
                       THEN Append(@, CircleMatchNotification(
                                onboarding.userID, onboarding.circle))
                       ELSE @]
    /\ UNCHANGED <<dbVars, matchVars, sockVars, reset, scan>>

\* utils.GenerateJWT and the response
GenerateJWT(jwt) ==
    /\ onboarding.pc = "GenerateJWT"
    /\ Respond(IF jwt = "ok" THEN 200 ELSE 500)
    /\ UNCHANGED <<dbVars, matchVars, sockVars, reset, scan>>

\* request bodies: the highest PHQ-2 score, both scores at five with a
\* repeated, padded topic, scores below the thresholds, and bodies that fail
\* validation
R_PhqSix == Request(<<T_ExamStress>>, Wellbeing(3, 3, 0, 0), TRUE)
R_BothFive ==
    Request(<<<<" ">> \o T_LowMood, T_LowMood>>, Wellbeing(3, 2, 2, 3), TRUE)
R_Mild == Request(<<T_LowMood>>, Wellbeing(2, 2, 2, 2), TRUE)
R_NoConsent == Request(<<T_LowMood>>, Wellbeing(3, 3, 0, 0), FALSE)
R_UnknownTopic == Request(<<T_SuicidalThoughts>>, Wellbeing(3, 3, 0, 0), TRUE)
OnboardingUsers == {NoUser, "u1", "u2"}
\* the requests that each client sends: u1 submits below the thresholds or
\* with both scores at five, u2 with PHQ-2 total 6
OnboardingRequests(userID) ==
    IF userID = "u1" THEN {R_Mild, R_BothFive, R_NoConsent}
    ELSE IF userID = "u2" THEN {R_PhqSix, R_UnknownTopic}
    ELSE {NoRequest, R_Mild}

OnboardingNext ==
    \/ \E role \in {"USER", "MODERATOR"}, userID \in OnboardingUsers :
          \E req \in OnboardingRequests(userID) :
              SubmitOnboarding(role, req, userID)
    \/ \E db \in DbOutcomes : FindOnboardingResponse(db)
    \/ \E db \in DbOutcomes : CreateOnboardingResponse(db)
    \/ \E db \in DbOutcomes : UpdateOnboardingResponse(db)
    \/ \E db \in DbOutcomes : MarkOnboarded(db)
    \/ OnboardingMatch
    \/ FindOrCreateCircle("p1")
    \/ assignModeratorRoundRobin("p1")
    \/ generateCircleName("p1")
    \/ CreateCircle("p1")
    \/ AddUserToCircle("p1")
    \/ CreateMembership("p1")
    \/ RereadCircle("p1")
    \/ UpdateStatus("p1")
    \/ OnboardingNotify
    \/ \E db \in DbOutcomes : FindModerator(db)
    \/ \E jwt \in DbOutcomes : GenerateJWT(jwt)

SpecOnboarding == MatchInit /\ [][OnboardingNext]_vars

(***************************************************************************)
(* The topics of onboarding: u1 submits non-critical requests with every   *)
(* list of one topic, allowed or not, and one list of two allowed topics;  *)
(* the handler's own persistence calls succeed.                            *)
(***************************************************************************)
SubmittedTopics ==
    allowedTopics \cup {T_SuicidalThoughts, T_FeelingHopeless,
                        <<" ">> \o T_Anxiety \o <<" ">>, <<" ">>}
TopicLists ==
    {<<t>> : t \in SubmittedTopics}
        \cup {<<T_Anxiety, T_ExamStress>>}

TopicsNext ==
    \/ \E topics \in TopicLists :
          SubmitOnboarding("USER",
                           Request(topics, Wellbeing(2, 2, 2, 2), TRUE),
                           "u1")
    \/ FindOnboardingResponse("ok")
    \/ CreateOnboardingResponse("ok")
    \/ UpdateOnboardingResponse("ok")
    \/ MarkOnboarded("ok")
    \/ OnboardingMatch
    \/ FindOrCreateCircle("p1")
    \/ assignModeratorRoundRobin("p1")
    \/ generateCircleName("p1")
    \/ CreateCircle("p1")
    \/ AddUserToCircle("p1")
    \/ CreateMembership("p1")
    \/ RereadCircle("p1")
    \/ UpdateStatus("p1")
    \/ OnboardingNotify
    \/ FindModerator("ok")
    \/ GenerateJWT("ok")

SpecTopics == MatchInit /\ [][TopicsNext]_vars

(***************************************************************************)
(* mark_read events that the handler drops: the connections of the read    *)
(* receipts, which may also connect without a token.                       *)
(***************************************************************************)
DropNext ==
    \/ \E c \in Conns : OnConnect(c)
    \/ \E c \in Conns : \E token \in ReadTokens(c) : OnConnectToken(c, token)
    \/ \E c \in Conns : AuthFindMembership(c, "ok")
    \/ \E c \in Conns : AuthCountMembers(c, "ok")
    \/ \E c \in Conns : SendMessage(c, Payload(1, PaddedHi), "ok", "ok")
    \/ \E c \in Conns : CreateMessage(c, "ok")
    \/ \E c \in Conns : CreateSenderReceipt(c, "ok")
    \/ \E c \in Conns : BroadcastNewMessage(c)
    \/ \E c \in Conns, in \in MarkInputs : MarkRead(c, in[1], in[2], in[3])
    \/ \E c \in Conns : MarkReadFind(c, "ok")
    \/ \E c \in Conns, db \in DbOutcomes : MarkReadCreate(c, db)
    \/ \E c \in Conns : MarkReadList(c, "ok")
    \/ \E c \in Conns : MarkReadBroadcast(c)

SpecDrop == ReadInit /\ [][DropNext]_vars

(***************************************************************************)
(* mark_read across circles: u1 of circle 1 and u2 of circle 2 send to     *)
(* their circles and mark messages read.                                   *)
(***************************************************************************)
\* the tokens the client of each connection presents
CrossTokens(c) == IF c = "s1" THEN {Token("u1", TRUE)} ELSE {Token("u2", TRUE)}

CrossNext ==
    \/ \E c \in Conns : \E token \in CrossTokens(c) : OnConnectToken(c, token)
    \/ \E c \in Conns : AuthFindMembership(c, "ok")
    \/ \E c \in Conns : AuthCountMembers(c, "ok")
    \/ \E c \in Conns : AuthFindModerator(c, "ok")
    \/ \E c \in Conns, k \in {1, 2} :
            SendMessage(c, Payload(k, PaddedHi), "ok", "ok")
    \/ \E c \in Conns : CreateMessage(c, "ok")
    \/ \E c \in Conns : CreateSenderReceipt(c, "ok")
    \/ \E c \in Conns : BroadcastNewMessage(c)
    \/ \E c \in Conns, in \in MarkInputs : MarkRead(c, in[1], in[2], in[3])
    \/ \E c \in Conns : MarkReadFind(c, "ok")
    \/ \E c \in Conns, db \in DbOutcomes : MarkReadCreate(c, db)
    \/ \E c \in Conns : MarkReadList(c, "ok")
    \/ \E c \in Conns : MarkReadBroadcast(c)

SpecCross == SockInit /\ [][CrossNext]_vars

(***************************************************************************)
(* Concurrent mark_read handlers: u1 and u2 of circle 1 mark the message   *)
(* that their moderator sent earlier; every persistence call succeeds.     *)
(***************************************************************************)
RaceInit ==
    /\ moderators = <<"m1", "m2">>
    /\ circles = ReadStore.circles
    /\ memberships = ReadStore.memberships
    /\ messages = << [circleID |-> 1, senderID |-> "m1",
                      content |-> TrimSpace(PaddedHi)] >>
    /\ reads = << [messageID |-> 1, userID |-> "m1"] >>
    /\ calls = [p \in Procs |-> IdleCall]
    /\ ncalls = 0
    /\ connState = [c \in Conns |-> "new"]
    /\ ctxUser = [c \in Conns |-> NoUser]
    /\ rooms = [c \in Conns |-> {}]
    /\ emitted = <<>>
    /\ returned = "none"
    /\ handler = [c \in Conns |-> IdleHandler]
    /\ broadcasts = <<>>
    /\ nsends = 0
    /\ reset = IdleReset
    /\ scan = IdleScan
    /\ onboarding = IdleOnboarding

RaceNext ==
    \/ \E c \in Conns : \E token \in CrossTokens(c) : OnConnectToken(c, token)
    \/ \E c \in Conns : AuthFindMembership(c, "ok")
    \/ \E c \in Conns : AuthCountMembers(c, "ok")
    \/ \E c \in Conns, in \in MarkInputs : MarkRead(c, in[1], in[2], in[3])
    \/ \E c \in Conns : MarkReadFind(c, "ok")
    \/ \E c \in Conns : MarkReadCreate(c, "ok")
    \/ \E c \in Conns : MarkReadList(c, "ok")
    \/ \E c \in Conns : MarkReadBroadcast(c)

SpecRace == RaceInit /\ [][RaceNext]_vars

(***************************************************************************)
(* A moderator of two circles: m1 is the only moderator account, so both   *)
(* circles that the matcher created are its circles.                       *)
(***************************************************************************)
\* the tokens the client of each connection presents
RoomsTokens(c) ==
    IF c = "s1" THEN {Token("m1", TRUE)}
    ELSE {Token("u1", TRUE), Token("u2", TRUE)}

RoomsInit ==
    /\ moderators = <<"m1">>
    /\ circles = << CircleRow("ANXIETY_DEPRESSION", "m1", 1, "ACTIVE"),
                    CircleRow("ACADEMIC_STRESS", "m1", 1, "ACTIVE") >>
    /\ memberships = << Member(1, "u1"), Member(2, "u2") >>
    /\ messages = <<>>
    /\ reads = <<>>
    /\ calls = [p \in Procs |-> IdleCall]
    /\ ncalls = 0
    /\ connState = [c \in Conns |-> "new"]
    /\ ctxUser = [c \in Conns |-> NoUser]
    /\ rooms = [c \in Conns |-> {}]
    /\ emitted = <<>>
    /\ returned = "none"
    /\ handler = [c \in Conns |-> IdleHandler]
    /\ broadcasts = <<>>
    /\ nsends = 0
    /\ reset = IdleReset
    /\ scan = IdleScan
    /\ onboarding = IdleOnboarding

RoomsNext ==
    \/ \E c \in Conns : \E token \in RoomsTokens(c) : OnConnectToken(c, token)
    \/ \E c \in Conns : AuthFindMembership(c, "ok")
    \/ \E c \in Conns : AuthCountMembers(c, "ok")
    \/ \E c \in Conns : AuthFindModerator(c, "ok")
    \/ \E c \in Conns, k \in {1, 2} :
            SendMessage(c, Payload(k, PaddedHi), "ok", "ok")
    \/ \E c \in Conns : CreateMessage(c, "ok")
    \/ \E c \in Conns : CreateSenderReceipt(c, "ok")
    \/ \E c \in Conns : BroadcastNewMessage(c)
    \/ \E c \in Conns : OnDisconnect(c)

SpecRooms == RoomsInit /\ [][RoomsNext]_vars

(***************************************************************************)
(* send_message events that the handler rejects, between connections that  *)
(* connect with or without a token and sends that are stored: every       *)
(* lookup succeeds.                                                        *)
(***************************************************************************)
RejectNext ==
    \/ \E c \in Conns : OnConnect(c)
    \/ \E c \in Conns : \E token \in ClientTokens(c) :
            OnConnectToken(c, token)
    \/ \E c \in Conns : AuthFindMembership(c, "ok")
    \/ \E c \in Conns : AuthCountMembers(c, "ok")
    \/ \E c \in Conns : AuthFindModerator(c, "ok")
    \/ \E c \in Conns, data \in SendData : SendMessage(c, data, "ok", "ok")
    \/ \E c \in Conns, db \in DbOutcomes : CreateMessage(c, db)
    \/ \E c \in Conns, db \in DbOutcomes : CreateSenderReceipt(c, db)
    \/ \E c \in Conns : BroadcastNewMessage(c)
    \/ \E c \in Conns : OnDisconnect(c)

SpecReject == SockInit /\ [][RejectNext]_vars

(***************************************************************************)
(* Access while the stored memberships change: a member of circle 1 is     *)
(* connected while resetDatabase runs.                                     *)
(***************************************************************************)
\* the tokens the client of each connection presents: s2 stays unconnected
AccessTokens(c) == IF c = "s1" THEN {Token("u1", TRUE)} ELSE {}

\* circle 1 of moderator m1 after u1 was matched to it
AccessStore ==
    [circles |-> << CircleRow("ANXIETY_DEPRESSION", "m1", 1, "ACTIVE") >>,
     memberships |-> << Member(1, "u1") >>]

AccessInit ==
    /\ moderators = <<"m1", "m2">>
    /\ circles = AccessStore.circles
    /\ memberships = AccessStore.memberships
    /\ messages = <<>>
    /\ reads = <<>>
    /\ calls = [p \in Procs |-> IdleCall]
    /\ ncalls = 0
    /\ connState = [c \in Conns |-> "new"]
    /\ ctxUser = [c \in Conns |-> NoUser]
    /\ rooms = [c \in Conns |-> {}]
    /\ emitted = <<>>
    /\ returned = "none"
    /\ handler = [c \in Conns |-> IdleHandler]
    /\ broadcasts = <<>>
    /\ nsends = 0
    /\ reset = IdleReset
    /\ scan = IdleScan
    /\ onboarding = IdleOnboarding

AccessNext ==
    \/ \E c \in Conns : \E token \in AccessTokens(c) : OnConnectToken(c, token)
    \/ \E c \in Conns : AuthFindMembership(c, "ok")
    \/ \E c \in Conns : AuthCountMembers(c, "ok")
    \/ \E c \in Conns : AuthFindModerator(c, "ok")
    \/ \E c \in Conns, db \in DbOutcomes :
            SendMessage(c, Payload(1, PaddedHi), db, "ok")
    \/ \E c \in Conns : CreateMessage(c, "ok")
    \/ \E c \in Conns : CreateSenderReceipt(c, "ok")
    \/ \E c \in Conns : BroadcastNewMessage(c)
    \/ \E c \in Conns, db \in DbOutcomes :
            MarkRead(c, ReadPayload(1, 1), db, "ok")
    \/ \E c \in Conns : MarkReadFind(c, "ok")
    \/ \E c \in Conns : MarkReadCreate(c, "ok")
    \/ \E c \in Conns : MarkReadList(c, "ok")
    \/ \E c \in Conns : MarkReadBroadcast(c)
    \/ \E db \in DbOutcomes : resetDatabase(db)
    \/ \E db \in DbOutcomes : DeleteMessages(db)
    \/ \E db \in DbOutcomes : DeleteMemberships(db)
    \/ \E db \in DbOutcomes : DeleteCircles(db)
    \/ \E db \in DbOutcomes : DeleteOnboardingResponses(db)
    \/ \E db \in DbOutcomes : DeleteUsers(db)
    \/ \E db \in DbOutcomes : CreateModerator(db)

SpecAccess == AccessInit /\ [][AccessNext]_vars

(***************************************************************************)
(* Properties of the circle matcher.                                       *)
(***************************************************************************)
\* C2: no circle with status active has more memberships than its
\* MaxMembers, in every reachable state of interleaved MatchUserToCircle calls.
C2_ActiveCircleWithinCapacity ==
    \A i \in CircleIDs :
        circles[i].status = "ACTIVE"
            => Cardinality(MembershipsOf(i)) <= circles[i].maxMembers

\* C3: in every reachable state each user holds at most one circle membership.
C3_AtMostOneMembership ==
    \A u \in Users : Cardinality(MembershipsOfUser(u)) <= 1

\* C4: a MatchUserToCircle call whose scores are a critical risk returns
\* (no circle, isCritical = true, no error) at once and leaves the stored
\* circles and memberships as they were.
C4_CriticalReturnsUnmatched ==
    [][\A p \in Procs :
          (/\ calls[p].pc = "idle"
           /\ calls'[p].pc # "idle"
           /\ IsCriticalRisk(calls'[p].phq2Total, calls'[p].gad2Total))
          => /\ calls'[p].pc = "done"
             /\ calls'[p].ret = [circle |-> NoCircle, isCritical |-> TRUE,
                                 err |-> ""]
             /\ circles' = circles
             /\ memberships' = memberships]_vars

\* a critical call has returned while circles and memberships are stored
C4_Witness ==
    \E p \in Procs :
        /\ calls[p].pc = "done"
        /\ calls[p].phq2Total = 6
        /\ calls[p].ret.isCritical
        /\ Len(circles) > 0
        /\ Len(memberships) > 0

(***************************************************************************)
(* Properties of the socket server.                                        *)
(***************************************************************************)
\* the user holds a membership row of the circle
IsMember(circleID, userID) ==
    \E i \in 1..Len(memberships) :
        memberships[i] = [circleID |-> circleID, userID |-> userID]

\* the user is the moderator of the circle
IsModerator(circleID, userID) ==
    circleID \in CircleIDs /\ circles[circleID].moderatorID = userID

\* C1: a message is persisted, and a new_message broadcast, only by a
\* send_message event on a connection with a recorded user id, whose payload
\* has a circleId and non-empty trimmed content, for a user who is a member
\* or the moderator of that circle; the persisted sender is the connection's
\* user id and the persisted content is the trimmed content.
C1_OnlyAuthorizedSendsPersist ==
    [][/\ Len(messages') > Len(messages) =>
            /\ Len(messages') = Len(messages) + 1
            /\ \E c \in Conns :
                LET m == messages'[Len(messages')]
                    payload == handler[c].data
                IN  /\ handler[c].pc = "create"
                    /\ ctxUser[c] # NoUser
                    /\ m.senderID = ctxUser[c]
                    /\ payload.valid
                    /\ payload.CircleID # NoCircle
                    /\ m.circleID = payload.CircleID
                    /\ m.content = TrimSpace(payload.Content)
                    /\ m.content # <<>>
                    /\ \/ IsMember(m.circleID, m.senderID)
                       \/ IsModerator(m.circleID, m.senderID)
       /\ Len(broadcasts') > Len(broadcasts) =>
            /\ Len(broadcasts') = Len(broadcasts) + 1
            /\ \E c \in Conns :
                LET b == broadcasts'[Len(broadcasts')]
                IN  /\ handler[c].pc = "broadcast"
                    /\ b.event = "new_message"
                    /\ b.data.id \in 1..Len(messages)
                    /\ b.data.id = handler[c].messageID
                    /\ b.room = messages[b.data.id].circleID
                    /\ b.data.senderId = ctxUser[c]
                    /\ messages[b.data.id].senderID = ctxUser[c]
                    /\ b.data.content = messages[b.data.id].content]_vars

\* a moderator's trimmed message has been persisted and broadcast
C1_Witness ==
    \E k \in 1..Len(broadcasts) :
        /\ broadcasts[k].data.senderId = "m1"
        /\ messages[broadcasts[k].data.id].content = TrimSpace(PaddedHi)

\* C5: when its persistence calls succeed, userHasCircleAccess returns true
\* exactly when the user is a member or the moderator of the circle, and
\* false for a circle id that does not exist.
C5_AccessIffMemberOrModerator ==
    \A circleID \in PayloadCircleIDs \cup {3}, userID \in SockUsers :
        LET access == userHasCircleAccess(circleID, userID, "ok", "ok")
        IN  /\ ~access.err
            /\ access.allowed <=> (IsMember(circleID, userID)
                                    \/ IsModerator(circleID, userID))
            /\ circleID \notin CircleIDs => ~access.allowed

\* a send of the moderator, who is no member, has passed the access check,
\* in a store where circle 2 does not exist
C5_Witness ==
    \E c \in Conns :
        /\ handler[c].pc = "create"
        /\ handler[c].userID = "m1"
        /\ ~IsMember(handler[c].circleID, "m1")
        /\ 2 \notin CircleIDs

\* an authenticateConnection call on c has failed: as far as the step shows
AuthFailed(c) ==
    /\ emitted' = <<Emit(c, "auth_error", emitted'[1].data)>>
    /\ connState'[c] = "closed"
    /\ rooms'[c] = rooms[c]
    /\ returned' = "false"
    /\ handler'[c].pc = "idle"

MemberCircles(userID) ==
    {memberships[i].circleID : i \in MembershipsOfUser(userID)}
ModeratedCircles(userID) ==
    {k \in CircleIDs : circles[k].moderatorID = userID}

\* authenticateConnection has succeeded on c with this auth_success
AuthSucceeded(c, data) ==
    /\ emitted' = <<Emit(c, "auth_success", data)>>
    /\ returned' = "true"
    /\ connState'[c] = connState[c]
    /\ handler'[c].pc = "idle"

\* the steps of authenticateConnection after the token is verified resolve
\* the circle membership first, then moderated circle, then none;
\* failedCount is whether auth_success carries 0 as the member count of the
\* circle of a membership when the query that counts the members fails
AuthResolves(c, failedCount) ==
    LET u == ctxUser[c]
        countOf(k, db) == IF db = "error" /\ failedCount THEN 0
                          ELSE Cardinality(MembershipsOf(k))
    IN  /\ AuthFindMembership(c, "ok") =>
              IF MemberCircles(u) # {}
              THEN /\ handler'[c].pc = "authCount"
                   /\ handler'[c].circleID \in MemberCircles(u)
                   /\ rooms'[c] = rooms[c] \cup {handler'[c].circleID}
              ELSE /\ handler'[c].pc = "authModerator"
                   /\ rooms'[c] = rooms[c]
        /\ \A db \in DbOutcomes :
              AuthCountMembers(c, db) =>
                 /\ handler[c].circleID \in rooms[c]
                 /\ rooms'[c] = rooms[c]
                 /\ AuthSucceeded(c, CircleDetails(u, handler[c].circleID,
                                        countOf(handler[c].circleID, db)))
        /\ AuthFindModerator(c, "ok") =>
              /\ MemberCircles(u) = {}
              /\ IF ModeratedCircles(u) # {}
                 THEN \E k \in ModeratedCircles(u) :
                        /\ rooms'[c] = rooms[c] \cup {k}
                        /\ AuthSucceeded(c, CircleDetails(u, k,
                                   Cardinality(MembershipsOf(k))))
                 ELSE /\ rooms'[c] = rooms[c]
                      /\ AuthSucceeded(c, [userId |-> u,
                                           circleId |-> NoCircle])

\* C7 as stated: on successful token verification the circle is resolved
\* membership first, then moderated circle, then none, and auth_success
\* carries the circle's id, name and member count.
C7_AuthResolvesWithMemberCount ==
    [][\A c \in Conns : AuthResolves(c, FALSE)]_vars

\* What holds of C7: the same, except that the member count carried for the
\* circle of a membership is 0 when the query that counts the members fails.
C7_AuthResolvesInPriorityOrder ==
    [][\A c \in Conns : AuthResolves(c, TRUE)]_vars

\* C8: once a connection has recorded a user id, no later event on it
\* changes or clears that user id.
C8_UserIdSetOnce ==
    [][\A c \in Conns :
          ctxUser[c] # NoUser => ctxUser'[c] = ctxUser[c]]_vars

\* C9: within one room, new_message broadcasts are issued in the order in
\* which their messages were persisted.
C9_BroadcastOrderIsPersistOrder ==
    \A i, j \in 1..Len(broadcasts) :
        (/\ i < j
         /\ broadcasts[i].event = "new_message"
         /\ broadcasts[j].event = "new_message"
         /\ broadcasts[i].room = broadcasts[j].room)
        => broadcasts[i].data.id < broadcasts[j].data.id

\* C10: when message creation fails the sender gets message_error "Failed
\* to send message", the handler ends and nothing is broadcast; and every
\* new_message broadcast carries the id of a message persisted before it.
C10_FailedCreateNoBroadcast ==
    [][/\ \A c \in Conns :
            (/\ handler[c].pc = "create"
             /\ handler'[c] # handler[c]
             /\ messages' = messages)
            => /\ emitted' = <<Emit(c, "message_error",
                                    "Failed to send message")>>
               /\ broadcasts' = broadcasts
               /\ handler'[c].pc = "idle"
       /\ \A k \in 1..Len(broadcasts') :
            (k > Len(broadcasts) /\ broadcasts'[k].event = "new_message")
            => broadcasts'[k].data.id \in 1..Len(messages)]_vars

\* a message creation has failed after another message was broadcast
C10_Witness ==
    /\ \E c \in Conns :
          emitted = <<Emit(c, "message_error", "Failed to send message")>>
    /\ Len(broadcasts) = 1
    /\ Len(messages) = 1

(***************************************************************************)
(* Properties of read receipts.                                            *)
(***************************************************************************)
\* the step appends one broadcast of this event
Broadcasts(event) ==
    /\ Len(broadcasts') = Len(broadcasts) + 1
    /\ broadcasts'[Len(broadcasts')].event = event

\* the set of the elements of a sequence
Range(seq) == {seq[i] : i \in 1..Len(seq)}

\* C11: a mark_read for a (message, user) pair that has a stored receipt
\* already creates nothing, broadcasts nothing and emits no error: the
\* handler ends at its lookup of the receipt.
C11_MarkReadIdempotent ==
    [][\A c \in Conns :
          (/\ handler[c].pc = "markFind"
           /\ ReceiptsOfPair(handler[c].messageID, handler[c].userID) # {}
           /\ handler'[c] # handler[c])
          => /\ handler'[c].pc = "idle"
             /\ reads' = reads
             /\ broadcasts' = broadcasts
             /\ emitted' = <<>>]_vars

\* C12: in every reachable state there is at most one stored read receipt
\* per (message, user) pair.
C12_OneReceiptPerPair ==
    \A i, j \in 1..Len(reads) : reads[i] = reads[j] => i = j

\* C13: every message_read broadcast carries the user ids of all receipts
\* stored for the message when the handler read them, the marking user
\* among them.
C13_ReadByIsFullList ==
    [][\A c \in Conns :
          /\ (handler[c].pc = "markList" /\ handler'[c].pc = "markBroadcast")
             => /\ Range(handler'[c].readBy) =
                      {reads[i].userID : i \in ReceiptsOf(handler[c].messageID)}
                /\ handler[c].userID \in Range(handler'[c].readBy)
                /\ handler'[c].messageID = handler[c].messageID
                /\ handler'[c].userID = handler[c].userID
          /\ (handler[c].pc = "markBroadcast" /\ handler'[c] # handler[c])
             => /\ Broadcasts("message_read")
                /\ LET b == broadcasts'[Len(broadcasts')]
                   IN  /\ b.room = handler[c].circleID
                       /\ b.data.messageId = handler[c].messageID
                       /\ b.data.userId = handler[c].userID
                       /\ b.data.readBy = handler[c].readBy
                       /\ b.data.userId \in Range(b.data.readBy)]_vars

\* u1 sent message 1 and u2 marked it read: message_read carries both
C13_Witness ==
    \E k \in 1..Len(broadcasts) :
        /\ broadcasts[k].event = "message_read"
        /\ broadcasts[k].data.userId = "u2"
        /\ broadcasts[k].data.readBy = <<"u1", "u2">>
        /\ messages[broadcasts[k].data.messageId].senderID = "u1"

\* the step broadcasts new_message with readBy = [sender id]
BroadcastsSelfRead ==
    LET b == broadcasts'[Len(broadcasts')]
    IN  /\ b.data.id \in 1..Len(messages)
        /\ b.data.senderId = messages[b.data.id].senderID
        /\ b.data.readBy = <<b.data.senderId>>

\* C14 as stated: for every new_message broadcast readBy is exactly
\* [sender id] and a receipt (message, sender) is stored at the time of the
\* broadcast.
C14_SelfReceiptStoredAtBroadcast ==
    [][(Broadcasts("new_message"))
          => /\ BroadcastsSelfRead
             /\ LET b == broadcasts'[Len(broadcasts')]
                IN  ReceiptsOfPair(b.data.id, b.data.senderId) # {}]_vars

\* C14 as amended: for every new_message broadcast readBy is exactly
\* [sender id]; the receipt (message, sender) is stored before the broadcast
\* when its creation succeeds, and stored receipts stay stored.
C14_SelfReadInBroadcast ==
    [][/\ (Broadcasts("new_message")) => BroadcastsSelfRead
       /\ \A c \in Conns :
             CreateSenderReceipt(c, "ok")
             => /\ ReceiptsOfPair(handler[c].messageID, handler[c].userID)' # {}
                /\ handler'[c].pc = "broadcast"
                /\ handler'[c].messageID = handler[c].messageID
                /\ broadcasts' = broadcasts
       /\ Len(reads') >= Len(reads)
       /\ \A i \in 1..Len(reads) : reads'[i] = reads[i]]_vars

\* a new_message was broadcast with the sender's receipt stored
C14_Witness ==
    \E k \in 1..Len(broadcasts) :
        /\ broadcasts[k].event = "new_message"
        /\ broadcasts[k].data.readBy = <<"u1">>
        /\ ReceiptsOfPair(broadcasts[k].data.id, "u1") # {}

\* the new_message broadcasts of a message
NewMessageBroadcasts(messageID) ==
    {k \in 1..Len(broadcasts) :
        /\ broadcasts[k].event = "new_message"
        /\ broadcasts[k].data.id = messageID}

\* C15: once a send_message handler has created its message, exactly one
\* new_message for it is eventually broadcast to the room of its circle,
\* whether or not the sender's receipt is created; a failure of that receipt
\* emits nothing to the client.
C15_CreatedMessageIsBroadcastOnce ==
    /\ \A c \in Conns : \A m \in 1..MaxSends :
          (handler[c].pc = "receipt" /\ handler[c].messageID = m)
          ~> (\E k \in NewMessageBroadcasts(m) :
                  broadcasts[k].room = messages[m].circleID)
    /\ [](\A m \in 1..Len(messages) :
              Cardinality(NewMessageBroadcasts(m)) <= 1)
    /\ [][\A c \in Conns :
             CreateSenderReceipt(c, "error")
             => /\ emitted' = <<>>
                /\ handler'[c].pc = "broadcast"]_vars

\* message 1 was broadcast although no receipt of its sender is stored
C15_Witness ==
    /\ NewMessageBroadcasts(1) # {}
    /\ ReceiptsOfPair(1, messages[1].senderID) = {}

\* the call of p has passed its CircleMembership.CreateOne without an error,
\* and the row it created for its user is stored
CreatedMembership(p) ==
    /\ calls[p].pc \in {"reread", "update"}
    /\ \E i \in 1..Len(memberships) :
           memberships[i] = [circleID |-> calls[p].circleID,
                             userID |-> calls[p].userID]

\* C17: whenever MatchUserToCircle returns a non-nil error, that call has not
\* created a membership for the user.
C17_ErrorLeavesUserUnmatched ==
    [][\A p \in Procs :
          (/\ calls[p].pc # "done"
           /\ calls'[p].pc = "done"
           /\ calls'[p].ret.err # "")
          => ~CreatedMembership(p)]_vars

\* the call of p has returned a circle without an error
Matched(p) ==
    /\ calls[p].pc = "done"
    /\ calls[p].ret.err = ""
    /\ ~calls[p].ret.isCritical

\* C18: with calls running one at a time and circle 1 the only active circle
\* of its category at MaxMembers-1 members: no circle of the category is
\* created while circle 1 has space; the assignment that returns circle 1 has
\* added its user to it, circle 1 then has MaxMembers members and the status
\* full; an assignment of the category that returns another circle found
\* circle 1 filled and returns a circle created for the category, with its
\* user in it.
C18_FillThenNewCircle ==
    /\ \A i \in CircleIDs \ {1} :
          circles[i].category = circles[1].category
          => Cardinality(MembershipsOf(1)) = MaxMembers
    /\ \A p \in Procs :
          (Matched(p) /\ calls[p].category = circles[1].category)
          => /\ Cardinality(MembershipsOf(1)) = MaxMembers
             /\ calls[p].ret.circle \in CircleIDs
             /\ circles[calls[p].ret.circle].category = calls[p].category
             /\ \E i \in MembershipsOf(calls[p].ret.circle) :
                    memberships[i].userID = calls[p].userID
             /\ calls[p].ret.circle = 1 => circles[1].status = "FULL"

\* circle 1 was filled by one call and the call after it returned a new
\* circle of the same category
C18_Witness ==
    \E p \in Procs :
        /\ Matched(p)
        /\ calls[p].ret.circle = 2
        /\ circles[2].category = circles[1].category
        /\ circles[1].status = "FULL"
        /\ Cardinality(MembershipsOf(1)) = MaxMembers
        /\ Cardinality(MembershipsOf(2)) = 1

(***************************************************************************)
(* Properties of the triage functions.                                     *)
(***************************************************************************)
\* C19: for all totals in 0..6, IsCriticalRisk is true exactly when both
\* totals are at least 5 or one of them is 6; (5,5), (6,0) and (0,6) are
\* critical and (4,4) is not.
C19_CriticalIffBothFiveOrAnySix ==
    \A p \in Procs :
        calls[p].pc = "done"
        => LET phq2Total == calls[p].phq2Total
               gad2Total == calls[p].gad2Total
               isCritical == calls[p].ret.isCritical
           IN  /\ isCritical <=> \/ phq2Total >= 5 /\ gad2Total >= 5
                                 \/ phq2Total = 6
                                 \/ gad2Total = 6
               /\ <<phq2Total, gad2Total>> \in {<<5, 5>>, <<6, 0>>, <<0, 6>>}
                  => isCritical
               /\ <<phq2Total, gad2Total>> = <<4, 4>> => ~isCritical

\* a caller evaluated (5,5), where no total is 6, as critical
C19_Witness ==
    \E p \in Procs :
        /\ calls[p].pc = "done"
        /\ calls[p].phq2Total = 5
        /\ calls[p].gad2Total = 5
        /\ calls[p].ret.isCritical

\* C20: DetermineCircleCategory returns crisis for every topic list that
\* contains the topic "suicidal thoughts", whatever other topics are present.
C20_SuicidalThoughtsIsCrisis ==
    \A p \in Procs :
        (calls[p].pc = "done" /\ HasTopic(calls[p].topics, T_SuicidalThoughts))
        => calls[p].category = "CRISIS"

\* some topic, read without regard to case, contains one of the words
AnyTopicContains(topics, words) ==
    \E i \in 1..Len(topics), k \in 1..Len(words) :
        Contains(ToLower(topics[i]), words[k])

\* C21: DetermineCircleCategory matches keywords as case-insensitive
\* substrings of the topics in strict priority: crisis, else
\* anxiety-depression, else academic-stress, else social-adjustment, else
\* general-support (also for the empty list).
C21_CategoryByPriority ==
    \A p \in Procs :
        calls[p].pc = "done"
        => calls[p].category =
             IF AnyTopicContains(calls[p].topics, crisisKeywords)
             THEN "CRISIS"
             ELSE IF AnyTopicContains(calls[p].topics, anxietyDepKeywords)
             THEN "ANXIETY_DEPRESSION"
             ELSE IF AnyTopicContains(calls[p].topics, academicKeywords)
             THEN "ACADEMIC_STRESS"
             ELSE IF AnyTopicContains(calls[p].topics, socialKeywords)
             THEN "SOCIAL_ADJUSTMENT"
             ELSE "GENERAL_SUPPORT"

\* evaluations reached the second priority against the order of the list,
\* the fourth priority under a capital letter, and the default on the empty
\* list
C21_Witness ==
    \E p \in Procs :
        /\ calls[p].pc = "done"
        /\ \/ /\ calls[p].topics = <<T_ExamStress, T_LowMood>>
              /\ calls[p].category = "ANXIETY_DEPRESSION"
           \/ /\ calls[p].topics = <<T_AdjustmentToCollege>>
              /\ calls[p].category = "SOCIAL_ADJUSTMENT"
        /\ DetermineCircleCategory(<<>>) = "GENERAL_SUPPORT"

(***************************************************************************)
(* Properties of the safety service.                                       *)
(***************************************************************************)
\* CheckContent has collected the matches of the content
Collected == scan.pc \in {"maskContent", "merge", "mask", "done", "panic"}

\* C23: RequiresEscalation is true if and only if at least one collected
\* match comes from a rule of severity critical, and Flagged is true if and
\* only if at least one rule matched.
C23_EscalationIffCriticalMatch ==
    Collected
    => /\ scan.result.RequiresEscalation
          <=> \E i \in 1..Len(scan.result.Matches) :
                  /\ scan.result.Matches[i].Severity = "critical"
                  /\ \E r \in 1..Len(safetyPatterns) :
                        /\ safetyPatterns[r].Severity = "critical"
                        /\ safetyPatterns[r].Category
                               = scan.result.Matches[i].Category
       /\ scan.result.Flagged
          <=> \E r \in 1..Len(safetyPatterns), k \in 1..Len(scan.content) :
                  MatchLenAt(scan.content, k, safetyPatterns[r].Pattern) > 0

\* a text that only a rule of severity high matches is returned flagged and
\* without escalation
C23_Witness ==
    /\ scan.pc = "done"
    /\ scan.result.Flagged
    /\ ~scan.result.RequiresEscalation
    /\ scan.result.Matches # <<>>

\* the characters of the content that a range covers, the ranges given as
\* positions in the characters
CoveredPositions(content, matches) ==
    {k \in 1..Len(content) :
        \E i \in 1..Len(matches) :
            matches[i].start <= k - 1 /\ k - 1 < matches[i].end}

\* C24: for any list of ranges over a text (overlapping, nested, adjacent,
\* duplicate), the masked output has the length of the original, every
\* position covered by a range holds the mask character and every other
\* position holds the original character.
C24_MaskCoversExactlyTheSpans ==
    /\ scan.pc # "panic"
    /\ scan.pc = "done"
       => /\ Len(scan.result.MaskedContent) = Len(scan.content)
          /\ \A k \in 1..Len(scan.content) :
                scan.result.MaskedContent[k] =
                    IF k \in CoveredPositions(scan.content, scan.matches)
                    THEN MaskChar
                    ELSE scan.content[k]

\* three ranges, one nested in another, were masked in a text with
\* characters of two bytes
C24_Witness ==
    /\ scan.pc = "done"
    /\ scan.content = <<EAcute, "b", LongS, "d">>
    /\ Len(scan.matches) = 3
    /\ \E i, j \in 1..Len(scan.matches) :
          /\ i # j
          /\ scan.matches[i].start < scan.matches[j].start
          /\ scan.matches[j].end < scan.matches[i].end
    /\ scan.result.MaskedContent = <<MaskChar, MaskChar, MaskChar, "d">>

\* the content holds a character of more than one byte
HasMultiByte(content) ==
    \E k \in 1..Len(content) : ByteLen(content[k]) > 1

\* the characters of the content whose bytes lie in a match
MatchedCharacters(content, Matches) ==
    {k \in 1..Len(content) :
        \E i \in 1..Len(Matches) :
            /\ Matches[i].Start <= OffsetOf(content, k)
            /\ OffsetOf(content, k) < Matches[i].End}

\* C25: for a text with multi-byte characters before or inside a match,
\* exactly the characters of the matched spans are replaced by as many mask
\* characters, the others are unchanged, and there is no out-of-range
\* failure.
C25_MaskByCharacters ==
    (/\ scan.pc \in {"done", "panic"}
     /\ HasMultiByte(scan.content)
     /\ scan.result.Flagged)
    => /\ scan.pc = "done"
       /\ scan.result.MaskedContent =
            [k \in 1..Len(scan.content) |->
                IF k \in MatchedCharacters(scan.content, scan.result.Matches)
                THEN MaskChar
                ELSE scan.content[k]]

\* C25 for the texts of single-byte characters: this holds
C25_SingleByteTextMasked ==
    (/\ scan.pc \in {"done", "panic"}
     /\ ~HasMultiByte(scan.content)
     /\ scan.result.Flagged)
    => /\ scan.pc = "done"
       /\ scan.result.MaskedContent =
            [k \in 1..Len(scan.content) |->
                IF k \in MatchedCharacters(scan.content, scan.result.Matches)
                THEN MaskChar
                ELSE scan.content[k]]

\* no rule matches anywhere in the content
NoRuleMatches(content) ==
    \A r \in 1..Len(safetyPatterns), k \in 1..Len(content) :
        ~\E a \in 1..Len(safetyPatterns[r].Pattern) :
            AlternativeAt(content, k, safetyPatterns[r].Pattern[a])

\* C26: for every input on which no rule matches, and for every empty or
\* whitespace-only input, CheckContent returns Flagged = false,
\* MaskedContent equal to the input, no matches and RequiresEscalation =
\* false.
C26_UnflaggedReturnsInput ==
    (/\ scan.pc \notin {"idle", "CheckContent"}
     /\ NoRuleMatches(scan.content) \/ TrimSpace(scan.content) = <<>>)
    => /\ scan.pc = "done"
       /\ scan.result = [Flagged |-> FALSE,
                         MaskedContent |-> scan.content,
                         Matches |-> <<>>,
                         RequiresEscalation |-> FALSE]

\* texts that hold blanks at both ends and no match, blanks only, and a word
\* that only starts like a pattern were returned
C26_Witness ==
    /\ scan.pc = "done"
    /\ scan.content \in {X_Hello, X_Blanks, X_Purged}
    /\ scan.content = X_Hello => TrimSpace(scan.content) # scan.content
    /\ scan.result.MaskedContent = scan.content
    /\ ~scan.result.Flagged

\* C22: the content of every persisted and broadcast message is the text
\* after safety processing: no stored message and no new_message broadcast
\* holds a span that a rule of the safety service matches.
C22_StoredContentIsMasked ==
    /\ \A i \in MessageIDs : NoRuleMatches(messages[i].content)
    /\ \A i \in 1..Len(broadcasts) :
          broadcasts[i].event = "new_message"
          => NoRuleMatches(broadcasts[i].data.content)

(***************************************************************************)
(* Properties of rejected events.                                          *)
(***************************************************************************)
\* the send_message event with this argument fails on connection c: no
\* session, malformed JSON, no circleId, no content after trimming, or a
\* user who is neither member nor moderator of the circle
SendFails(c, data) ==
    \/ ctxUser[c] = NoUser
    \/ ~data.valid
    \/ data.CircleID = NoCircle
    \/ \A i \in 1..Len(data.Content) : data.Content[i] \in WhiteSpace
    \/ ~(IsMember(data.CircleID, ctxUser[c])
            \/ IsModerator(data.CircleID, ctxUser[c]))

\* C28: a send_message event that fails for one of these reasons emits
\* exactly one message_error to the sender, persists and broadcasts nothing,
\* and is not terminal: the connection stays open with its session, rooms
\* and handler as they were, so that it takes the next event.
C28_RejectedSendIsNonTerminal ==
    [][\A c \in Conns, data \in SendData :
          (SendFails(c, data) /\ SendMessage(c, data, "ok", "ok"))
          => /\ Len(emitted') = 1
             /\ emitted'[1].to = c
             /\ emitted'[1].event = "message_error"
             /\ messages' = messages
             /\ reads' = reads
             /\ broadcasts' = broadcasts
             /\ connState'[c] = "open"
             /\ ctxUser' = ctxUser
             /\ rooms' = rooms
             /\ handler'[c] = IdleHandler]_vars

\* the send_message of a member without content was rejected, and the valid
\* send_message of the same connection is possible next
C28_Witness ==
    \E c \in Conns :
        /\ connState[c] = "open"
        /\ IsMember(1, ctxUser[c])
        /\ emitted = <<Emit(c, "message_error",
                            "Circle and message content are required")>>
        /\ ENABLED (/\ SendMessage(c, Payload(1, PaddedHi), "ok", "ok")
                    /\ handler'[c].pc = "create")

\* the mark_read event with this argument and these lookup outcomes fails on
\* connection c before it looks for a receipt: no session, malformed JSON,
\* no messageId or circleId, or no access to the circle
MarkFails(c, in) ==
    \/ ctxUser[c] = NoUser
    \/ ~in[1].valid
    \/ in[1].CircleID = NoCircle
    \/ in[1].MessageID = NoMessage
    \/ ~userHasCircleAccess(in[1].CircleID, ctxUser[c], in[2], in[3]).allowed

\* the receipt insert of the mark_read event of connection c fails
InsertFails(c, db) ==
    db = "error" \/ handler[c].messageID \notin MessageIDs

\* C29: a mark_read event that fails before the receipt lookup, or whose
\* receipt insert fails, is dropped silently: the step stores no receipt,
\* broadcasts nothing, emits nothing, ends the handler and leaves the
\* connection open with its session.
C29_DroppedMarkReadIsSilent ==
    [][\A c \in Conns :
          /\ \A in \in MarkInputs :
                (MarkFails(c, in) /\ MarkRead(c, in[1], in[2], in[3]))
                => /\ reads' = reads
                   /\ broadcasts' = broadcasts
                   /\ emitted' = <<>>
                   /\ connState'[c] = "open"
                   /\ ctxUser' = ctxUser
                   /\ handler'[c] = IdleHandler
          /\ \A db \in DbOutcomes :
                (InsertFails(c, db) /\ MarkReadCreate(c, db))
                => /\ reads' = reads
                   /\ broadcasts' = broadcasts
                   /\ emitted' = <<>>
                   /\ connState'[c] = "open"
                   /\ ctxUser' = ctxUser
                   /\ handler'[c] = IdleHandler]_vars

\* the mark_read event of u2 for the stored and broadcast message of u1 has
\* passed every test and is at its receipt insert, whose failure ends the
\* handler without a receipt
C29_Witness ==
    \E c \in Conns :
        /\ connState[c] = "open"
        /\ ctxUser[c] = "u2"
        /\ handler[c].pc = "markCreate"
        /\ handler[c].messageID \in MessageIDs
        /\ Len(broadcasts) > 0
        /\ ReceiptsOfPair(handler[c].messageID, "u2") = {}
        /\ ENABLED (/\ MarkReadCreate(c, "error")
                    /\ handler'[c] = IdleHandler
                    /\ reads' = reads)

(***************************************************************************)
(* Properties of the moderator assignment.                                 *)
(***************************************************************************)
\* the stored circles of status ACTIVE that the moderator account moderates
ActiveCirclesOf(m) ==
    {i \in 1..Len(circles) :
        circles[i].moderatorID = m /\ circles[i].status = "ACTIVE"}

\* C31: the moderator selected for a new circle is the first account in query
\* order whose number of active circles is minimal among all moderator
\* accounts at the selection, full circles not counted; the circle then
\* created carries that moderator.
C31_FewestActiveCirclesFirst ==
    [][\A p \in Procs :
          /\ (calls[p].pc = "moderator" /\ calls'[p].pc = "name")
             => \E i \in 1..Len(moderators) :
                   /\ calls'[p].moderatorID = moderators[i]
                   /\ \A j \in 1..Len(moderators) :
                         Cardinality(ActiveCirclesOf(moderators[i]))
                            <= Cardinality(ActiveCirclesOf(moderators[j]))
                   /\ \A j \in 1..(i - 1) :
                         Cardinality(ActiveCirclesOf(moderators[j]))
                            > Cardinality(ActiveCirclesOf(moderators[i]))
          /\ (calls[p].pc = "create" /\ Len(circles') > Len(circles))
             => circles'[Len(circles')].moderatorID = calls[p].moderatorID]_vars

\* circle 1 of m1 is full, and the circle created after it is of m1 again:
\* the full circle was not counted
C31_Witness ==
    /\ Len(circles) >= 2
    /\ circles[1].status = "FULL"
    /\ circles[1].moderatorID = "m1"
    /\ circles[2].moderatorID = "m1"
    /\ circles[2].status = "ACTIVE"

(***************************************************************************)
(* Properties of the rooms of a connection.                                *)
(***************************************************************************)
\* C32: between its events, every open connection is joined only to rooms of
\* circles of which its recorded user is a member or the moderator (the
\* stored circles and memberships do not change here, so the access check at
\* the time of joining is the access check now).
C32_RoomsOfRecordedUser ==
    \A c \in Conns :
        (connState[c] = "open" /\ handler[c].pc = "idle")
        => \A circleID \in rooms[c] :
              \/ IsMember(circleID, ctxUser[c])
              \/ IsModerator(circleID, ctxUser[c])

(***************************************************************************)
(* Properties of mark_read across circles.                                 *)
(***************************************************************************)
\* C33: every stored read receipt (m, u) is of a user u who is a member or
\* the moderator of the circle that message m belongs to.
C33_ReceiptOnlyInOwnCircle ==
    \A i \in 1..Len(reads) :
        LET circleID == messages[reads[i].messageID].circleID
        IN  \/ IsMember(circleID, reads[i].userID)
            \/ IsModerator(circleID, reads[i].userID)

(***************************************************************************)
(* Properties of concurrent mark_read handlers.                            *)
(***************************************************************************)
\* the message_read broadcasts issued for a message, by position
ReadBroadcastsOf(messageID) ==
    {k \in 1..Len(broadcasts) :
        /\ broadcasts[k].event = "message_read"
        /\ broadcasts[k].data.messageId = messageID}

\* C34: once every handler has finished, the readBy of the last message_read
\* broadcast issued for a message is the set of users with a stored receipt
\* for it.
C34_LastReadByIsCurrent ==
    (\A c \in Conns : handler[c].pc = "idle")
    => \A messageID \in 1..Len(messages) :
          ReadBroadcastsOf(messageID) # {}
          => LET last == CHOOSE k \in ReadBroadcastsOf(messageID) :
                            \A j \in ReadBroadcastsOf(messageID) : j <= k
                 readBy == broadcasts[last].data.readBy
             IN  {readBy[i] : i \in 1..Len(readBy)}
                    = {reads[i].userID : i \in ReceiptsOf(messageID)}

\* C35: an open connection whose authentication has succeeded is joined to
\* the room of every circle of which its user is a member or the moderator
\* (the stored circles and memberships do not change here).
C35_JoinedToEveryAccessibleCircle ==
    \A c \in Conns :
        (connState[c] = "open" /\ handler[c].pc = "idle" /\ ctxUser[c] # NoUser)
        => \A circleID \in CircleIDs :
              (IsMember(circleID, ctxUser[c]) \/ IsModerator(circleID, ctxUser[c]))
              => circleID \in rooms[c]

\* the positions of a MatchUserToCircle call before its own membership is
\* stored
BeforeOwnMembership ==
    {"find", "moderator", "name", "create", "lookup", "insert"}

\* C36: every step of a MatchUserToCircle call whose user holds a membership
\* leaves the circles and the memberships unchanged, and the call returns an
\* error (calls run one after the other here, so a membership held before
\* the call stores its own was held when the call started).
C36_MatchedUserChangesNothing ==
    [][\A p \in Procs :
          (/\ calls[p].pc \in BeforeOwnMembership
           /\ MembershipsOfUser(calls[p].userID) # {}
           /\ calls'[p] # calls[p])
          => /\ circles' = circles
             /\ memberships' = memberships
             /\ calls'[p].pc = "done" => calls'[p].ret.err # ""]_vars

\* C37: a typing_start or typing_stop event on a connection whose context
\* was never set is ignored: the handler returns normally, the connection
\* stays open, and nothing is broadcast or emitted.
C37_UnauthenticatedTypingIgnored ==
    [][\A c \in Conns :
          (/\ ctxUser[c] = NoUser
           /\ \E circleID \in PayloadCircleIDs :
                 typing_start(c, circleID) \/ typing_stop(c, circleID))
          => /\ returned' = "none"
             /\ connState' = connState
             /\ broadcasts' = broadcasts
             /\ emitted' = <<>>]_vars

(***************************************************************************)
(* Properties of the onboarding handler.                                   *)
(***************************************************************************)
\* the request in progress carries critical scores
CriticalRequest ==
    /\ onboarding.pc # "idle"
    /\ IsCriticalRisk(onboarding.phq2Total, onboarding.gad2Total)

\* C30: while an onboarding submission with critical scores is processed no
\* membership is created and no circle-match notification is dispatched;
\* the matcher returns (no circle, critical, no error), and on its return
\* the handler dispatches the critical-risk alert of the user, who is marked
\* onboarding-completed, and goes on to the response.
C30_CriticalSubmissionAlertsOnly ==
    [][CriticalRequest =>
          /\ memberships' = memberships
          /\ \A k \in 1..Len(onboarding'.emails) :
                k > Len(onboarding.emails)
                    => onboarding'.emails[k].mail # "CircleMatchNotification"
          /\ (onboarding.pc = "MatchUserToCircle"
                /\ onboarding'.pc # "MatchUserToCircle")
             => /\ calls["p1"].ret = [circle |-> NoCircle,
                                      isCritical |-> TRUE, err |-> ""]
                /\ onboarding'.emails =
                        Append(onboarding.emails,
                               CriticalRiskAlert(onboarding.userID,
                                                 onboarding.phq2Total,
                                                 onboarding.gad2Total,
                                                 onboarding.topics))
                /\ onboarding.userID \in onboarding'.completed
                /\ onboarding'.pc = "GenerateJWT"]_vars

\* after u1 was matched to a circle and notified, the submission of u2 with
\* PHQ-2 total 6 has passed the matcher: u2 is alerted about, is marked
\* completed and has no membership
C30_Witness ==
    /\ onboarding.pc = "GenerateJWT"
    /\ onboarding.userID = "u2"
    /\ onboarding.phq2Total = 6
    /\ "u2" \in onboarding.completed
    /\ Len(onboarding.emails) = 2
    /\ onboarding.emails[1].mail = "CircleMatchNotification"
    /\ onboarding.emails[2] =
            CriticalRiskAlert("u2", 6, 0, <<T_ExamStress>>)
    /\ \E i \in 1..Len(memberships) : memberships[i].userID = "u1"
    /\ ~\E i \in 1..Len(memberships) : memberships[i].userID = "u2"

\* C38: the topic list that SubmitOnboarding passes to MatchUserToCircle holds
\* allowed onboarding topics only and DetermineCircleCategory does not
\* return crisis for it, so neither a call of the onboarding flow nor a
\* stored circle is of category crisis.
C38_OnboardingNeverCrisis ==
    /\ onboarding.pc = "MatchUserToCircle"
       => /\ \A i \in 1..Len(onboarding.topics) :
                onboarding.topics[i] \in allowedTopics
          /\ DetermineCircleCategory(onboarding.topics) # "CRISIS"
    /\ calls["p1"].category # "CRISIS"
    /\ \A i \in 1..Len(circles) : circles[i].category # "CRISIS"

\* the request with the topics "Anxiety" and "Exam stress" has been matched
\* to a new circle for anxiety and depression, and a request with a topic
\* outside the allowed set was refused before
C38_Witness ==
    /\ onboarding.pc = "GenerateJWT"
    /\ onboarding.topics = <<T_Anxiety, T_ExamStress>>
    /\ onboarding.circle # NoCircle
    /\ circles[onboarding.circle].category = "ANXIETY_DEPRESSION"
    /\ \E i \in 1..Len(memberships) :
          memberships[i] = Member(onboarding.circle, onboarding.userID)

(***************************************************************************)
(* Properties of the typing indicators.                                    *)
(***************************************************************************)
\* C27: a typing_start (typing_stop) event on an authenticated connection
\* broadcasts user_typing {userId, typing = true (false)} to the named room
\* if and only if the connection is joined to that room; if it is not,
\* nothing is broadcast and nothing is emitted to the sender.
C27_TypingOnlyToJoinedRoom ==
    [][\A c \in Conns, circleID \in PayloadCircleIDs, typing \in BOOLEAN :
          (/\ ctxUser[c] # NoUser
           /\ IF typing THEN typing_start(c, circleID)
                        ELSE typing_stop(c, circleID))
          => /\ emitted' = <<>>
             /\ IF circleID \in rooms[c]
                THEN broadcasts' = Append(broadcasts,
                        [room |-> circleID, event |-> "user_typing",
                         data |-> [userId |-> ctxUser[c],
                                   typing |-> typing]])
                ELSE broadcasts' = broadcasts]_vars

\* a typing_start and a typing_stop of the member of a room were broadcast to
\* it, in a store with a second circle that this connection has not joined
C27_Witness ==
    \E c \in Conns :
        /\ connState[c] = "open"
        /\ ctxUser[c] # NoUser
        /\ rooms[c] = {1}
        /\ 2 \in CircleIDs
        /\ Len(broadcasts) = 2
        /\ broadcasts[1] = [room |-> 1, event |-> "user_typing",
                            data |-> [userId |-> ctxUser[c], typing |-> TRUE]]
        /\ broadcasts[2] = [room |-> 1, event |-> "user_typing",
                            data |-> [userId |-> ctxUser[c], typing |-> FALSE]]

(***************************************************************************)
(* Properties of access while memberships change.                          *)
(***************************************************************************)
\* C16: access is evaluated against the stored memberships on every event:
\* a send_message to a circle of which the connection's user is neither a
\* member now nor the moderator is rejected with message_error and persists
\* and broadcasts nothing, and a mark_read of that user stores no receipt.
C16_AccessEvaluatedOnEveryEvent ==
    [][\A c \in Conns :
          LET userID == ctxUser[c]
              noAccess == /\ userID # NoUser
                          /\ ~IsMember(1, userID)
                          /\ ~IsModerator(1, userID)
          IN  \A db \in DbOutcomes :
                /\ (noAccess /\ SendMessage(c, Payload(1, PaddedHi), db, "ok"))
                   => /\ Len(emitted') = 1
                      /\ emitted'[1].to = c
                      /\ emitted'[1].event = "message_error"
                      /\ handler'[c].pc = "idle"
                      /\ messages' = messages
                      /\ broadcasts' = broadcasts
                /\ (noAccess /\ MarkRead(c, ReadPayload(1, 1), db, "ok"))
                   => /\ handler'[c].pc = "idle"
                      /\ reads' = reads
                      /\ broadcasts' = broadcasts]_vars

\* u1 authenticated as a member of circle 1 and joined its room; its
\* membership was deleted, the circle still exists, and its send_message on
\* the open connection was rejected
C16_Witness ==
    \E c \in Conns :
        /\ connState[c] = "open"
        /\ ctxUser[c] = "u1"
        /\ 1 \in rooms[c]
        /\ 1 \in CircleIDs
        /\ ~IsMember(1, "u1")
        /\ emitted = <<Emit(c, "message_error",
                            "Not authorized to send to this circle")>>

====
